---- MODULE Spec2Model ----
(***************************************************************************)
(* A model of the LLM dependency bot (src/src/agent.py): the perception    *)
(* helpers, the bounded tool-use loop of decide_with_llm, the extraction   *)
(* of the verdict from the final text, the fallback decision table and the *)
(* three-way dispatch of execute_action.                                   *)
(*                                                                         *)
(* Strings whose characters the code inspects (version strings, labels,    *)
(* bodies) are sequences of one-character strings.  The final text of the  *)
(* reasoning service is a sequence of lexical tokens: the two braces, JSON *)
(* keys, JSON string values and prose.                                     *)
(***************************************************************************)
EXTENDS Naturals, Integers, Sequences, FiniteSets, TLC

VARIABLES
    pc,         \* position of the run
    ctx,        \* the PRContext built by gather_pr_context
    iteration,  \* requests issued to the reasoning service so far
    response,   \* the last response of the reasoning service
    block,      \* index of the next content block of the response to process
    messages,   \* the conversation list of decide_with_llm
    results,    \* tool_results of the round being processed
    verdict,    \* (decision, risk, reasoning source) returned by decide_with_llm
    calls,      \* requests issued to the source-control host, in order
    pr,         \* the pull request as the source-control host holds it
    exc,        \* the exception that ended the run, and the function that raised it
    ret,        \* the value returned by a helper that is called on its own
    env         \* the environment variables of the process

vars == <<pc, pr, ctx, iteration, response, block, messages, results, verdict, calls, exc, ret, env>>

----------------------------------------------------------------------------
(* Bounds of the model *)

\* longest content list of one response
MaxBlocks == 2
\* most chunks of a final text in the extraction specification
MaxChunks == 3
\* check runs in a fetched list
MaxRuns == 3
\* characters in a generated version string
MaxVersionLen == 3

----------------------------------------------------------------------------
(* Enums *)

RiskLevel ==
    [LOW |-> "low", MEDIUM |-> "medium", HIGH |-> "high", CRITICAL |-> "critical"]

MergeDecision ==
    [AUTO_MERGE |-> "auto_merge", REQUIRE_APPROVAL |-> "require_approval",
     DO_NOT_MERGE |-> "do_not_merge"]

Range(f) == {f[x] : x \in DOMAIN f}

----------------------------------------------------------------------------
(* Character strings *)

Digits == {"0", "1", "2", "3", "4", "5", "6", "7", "8", "9"}

UpperToLower ==
    [A |-> "a", B |-> "b", C |-> "c", D |-> "d", E |-> "e", F |-> "f", G |-> "g",
     H |-> "h", I |-> "i", J |-> "j", K |-> "k", L |-> "l", M |-> "m", N |-> "n",
     O |-> "o", P |-> "p", Q |-> "q", R |-> "r", S |-> "s", T |-> "t", U |-> "u",
     V |-> "v", W |-> "w", X |-> "x", Y |-> "y", Z |-> "z"]

Letters == DOMAIN UpperToLower \cup Range(UpperToLower)

\* str.lower()
lower(s) == [i \in 1..Len(s) |-> IF s[i] \in DOMAIN UpperToLower THEN UpperToLower[s[i]] ELSE s[i]]

\* needle in hay
Contains(hay, needle) ==
    \E i \in 0..(Len(hay) - Len(needle)) :
        \A j \in 1..Len(needle) : hay[i + j] = needle[j]

\* str.split("."): the pieces between the dots, empty pieces kept
RECURSIVE split(_)
split(s) ==
    IF \A i \in 1..Len(s) : s[i] # "."
    THEN <<s>>
    ELSE LET d == CHOOSE i \in 1..Len(s) : s[i] = "." /\ \A j \in 1..(i - 1) : s[j] # "."
         IN  <<SubSeq(s, 1, d - 1)>> \o split(SubSeq(s, d + 1, Len(s)))

----------------------------------------------------------------------------
(* _get_ci_status *)

NoneValue == "None"

\* the part of _get_ci_status inside the try block, for a fetched list of runs
CombineCheckRuns(check_runs) ==
    LET statuses    == [i \in 1..Len(check_runs) |-> check_runs[i].status]
        conclusions == SelectSeq([i \in 1..Len(check_runs) |-> check_runs[i].conclusion],
                                 LAMBDA c : c # NoneValue /\ c # "")
    IN  IF Len(check_runs) = 0 THEN <<"pending", NoneValue>>
        ELSE IF \E i \in 1..Len(statuses) : statuses[i] # "completed"
             THEN <<"pending", NoneValue>>
        ELSE IF \A i \in 1..Len(conclusions) : conclusions[i] = "success"
             THEN <<"success", "success">>
        ELSE IF \E i \in 1..Len(conclusions) :
                     conclusions[i] \in {"failure", "cancelled", "timed_out"}
             THEN <<"failure", "failure">>
        ELSE <<"pending", NoneValue>>

\* a failed fetch that is reported as a run in progress
FetchFailureIsPending(fetch_ok, check_runs) ==
    IF fetch_ok THEN CombineCheckRuns(check_runs) ELSE <<"pending", NoneValue>>

\* fetch_ok is FALSE when the check-run request raises
_get_ci_status(fetch_ok, check_runs) ==
    IF fetch_ok THEN CombineCheckRuns(check_runs) ELSE <<"unknown", NoneValue>>

----------------------------------------------------------------------------
(* _is_security_update *)

kw_security == <<"s", "e", "c", "u", "r", "i", "t", "y">>
kw_cve == <<"c", "v", "e">>
kw_vulnerability == <<"v", "u", "l", "n", "e", "r", "a", "b", "i", "l", "i", "t", "y">>

CaseSensitiveSecurity(labels, body) ==
    \/ \E i \in 1..Len(labels) : Contains(labels[i], kw_security)
    \/ Contains(body, kw_security)
    \/ Contains(body, kw_cve)
    \/ Contains(body, kw_vulnerability)

_is_security_update(labels, body) ==
    LET label_names == [i \in 1..Len(labels) |-> lower(labels[i])]
        body_lower  == lower(body)
    IN  \/ \E i \in 1..Len(label_names) : Contains(label_names[i], kw_security)
        \/ Contains(body_lower, kw_security)
        \/ Contains(body_lower, kw_cve)
        \/ Contains(body_lower, kw_vulnerability)

----------------------------------------------------------------------------
(* _parse_dependency_info; titles are character strings *)

IsVersionChar(c) == c \in Digits \cup {"."}
IsWordChar(c) == c \in Digits \cup Letters \cup {"_"} \cup {"."}

\* s has the literal lit at index i
At(s, i, lit) ==
    /\ i >= 1
    /\ i + Len(lit) - 1 <= Len(s)
    /\ \A j \in 1..Len(lit) : s[i + j - 1] = lit[j]

\* str.strip() for the space character
RECURSIVE strip(_)
strip(s) ==
    IF Len(s) > 0 /\ s[1] = " " THEN strip(Tail(s))
    ELSE IF Len(s) > 0 /\ s[Len(s)] = " " THEN strip(SubSeq(s, 1, Len(s) - 1))
    ELSE s

\* length of the longest run of [\d.] characters of s starting at index i
VersionRunLen(s, i) ==
    CHOOSE n \in 0..Len(s) :
        /\ i + n - 1 <= Len(s)
        /\ \A j \in i..(i + n - 1) : IsVersionChar(s[j])
        /\ (i + n > Len(s) \/ ~IsVersionChar(s[i + n]))

\* length of the longest run of [\w.] characters of s starting at index i
WordRunLen(s, i) ==
    CHOOSE n \in 0..Len(s) :
        /\ i + n - 1 <= Len(s)
        /\ \A j \in i..(i + n - 1) : IsWordChar(s[j])
        /\ (i + n > Len(s) \/ ~IsWordChar(s[i + n]))

\* length of the longest match of [\d.]+(?:-[\w.]+)? at index i of s; 0 when none
VersionLenAt(s, i) ==
    LET n == VersionRunLen(s, i)
        m == IF i + n <= Len(s) /\ s[i + n] = "-" THEN WordRunLen(s, i + n + 1) ELSE 0
    IN  IF n = 0 THEN 0 ELSE IF m > 0 THEN n + 1 + m ELSE n

lit_from == <<"f", "r", "o", "m", " ">>
lit_to == <<" ", "t", "o", " ">>
lit_bump == <<"b", "u", "m", "p", " ">>
lit_sp_from == <<" ", "f", "r", "o", "m">>
lit_update == <<"u", "p", "d", "a", "t", "e", " ">>
lit_sp_to == <<" ", "t", "o">>

\* r"from ([\d.]+(?:-[\w.]+)?) to ([\d.]+(?:-[\w.]+)?)" matches at index i:
\* the runs of group 1 are maximal because a space must follow it
VersionPairAt(title, i) ==
    /\ At(title, i, lit_from)
    /\ VersionLenAt(title, i + 5) > 0
    /\ At(title, i + 5 + VersionLenAt(title, i + 5), lit_to)
    /\ VersionLenAt(title, i + 5 + VersionLenAt(title, i + 5) + 4) > 0

\* re.search(prefix + "(.+?)" + suffix, title, re.IGNORECASE).group(1), or <<>>
\* when there is no match: the leftmost prefix, then the nearest suffix
LazyGroup(title, prefix, suffix) ==
    LET low    == lower(title)
        ends(i) == {j \in (i + Len(prefix) + 1)..Len(title) : At(low, j, suffix)}
        starts == {i \in 1..Len(title) : At(low, i, prefix) /\ ends(i) # {}}
    IN  IF starts = {} THEN <<>>
        ELSE LET i == CHOOSE x \in starts : \A y \in starts : x <= y
                 j == CHOOSE x \in ends(i) : \A y \in ends(i) : x <= y
             IN  SubSeq(title, i + Len(prefix), j - 1)

name_unknown == <<"u", "n", "k", "n", "o", "w", "n">>

\* a classification that calls a pair of different lengths minor
ClassifyByLength(old_version, new_version) ==
    LET old_parts == split(old_version)
        new_parts == split(new_version)
    IN  IF old_parts[1] # new_parts[1] THEN "major"
        ELSE IF Len(old_parts) # Len(new_parts) THEN "minor"
        ELSE IF Len(old_parts) >= 2 /\ old_parts[2] # new_parts[2] THEN "minor"
        ELSE "patch"

\* the semantic version update type of a matched pair
ClassifyVersions(old_version, new_version) ==
    LET old_parts == split(old_version)
        new_parts == split(new_version)
    IN  IF Len(old_parts) >= 1 /\ Len(new_parts) >= 1
        THEN IF old_parts[1] # new_parts[1] THEN "major"
             ELSE IF /\ Len(old_parts) >= 2
                     /\ Len(new_parts) >= 2
                     /\ old_parts[2] # new_parts[2]
                  THEN "minor"
             ELSE "patch"
        ELSE "unknown"

_parse_dependency_info(title) ==
    LET bump_group      == LazyGroup(title, lit_bump, lit_sp_from)
        renovate_group  == LazyGroup(title, lit_update, lit_sp_to)
        dependency_name == IF bump_group # <<>> THEN strip(bump_group)
                           ELSE IF renovate_group # <<>> THEN strip(renovate_group)
                           ELSE name_unknown
        matches         == {i \in 1..Len(title) : VersionPairAt(title, i)}
    IN  IF matches # {}
        THEN LET i  == CHOOSE x \in matches : \A y \in matches : x <= y
                 n1 == VersionLenAt(title, i + 5)
                 n2 == VersionLenAt(title, i + 5 + n1 + 4)
                 old_version == SubSeq(title, i + 5, i + 5 + n1 - 1)
                 new_version == SubSeq(title, i + 5 + n1 + 4, i + 5 + n1 + 4 + n2 - 1)
             IN  [update_type |-> ClassifyVersions(old_version, new_version),
                  old_version |-> old_version, new_version |-> new_version,
                  dependency_name |-> dependency_name]
        ELSE [update_type |-> "unknown", old_version |-> <<>>,
              new_version |-> <<>>, dependency_name |-> dependency_name]

----------------------------------------------------------------------------
(* PRContext.  The fields that decide_with_llm, _fallback_decision and     *)
(* execute_action branch on are enumerated; labels, mergeable_state,       *)
(* ci_conclusion, the two versions and the dependency name are carried as  *)
(* gather_pr_context computes them.                                        *)

CIStatuses == {"success", "failure", "pending", "unknown"}
UpdateTypes == {"unknown", "patch", "minor", "major"}

\* the files a pull request of the model changes
changed_files == <<"package.json", "package-lock.json">>

PRContext ==
    [is_draft : BOOLEAN, mergeable : BOOLEAN, ci_status : CIStatuses,
     update_type : UpdateTypes, is_security_update : BOOLEAN,
     files_changed : {<<>>, changed_files}]

\* the enumerated fields of a context
Branches(context) == [f \in {"is_draft", "mergeable", "ci_status", "update_type",
                              "is_security_update", "files_changed"} |-> context[f]]

NoContext ==
    [is_draft |-> FALSE, mergeable |-> FALSE, ci_status |-> "unknown",
     update_type |-> "unknown", is_security_update |-> FALSE, files_changed |-> <<>>,
     labels |-> <<>>, mergeable_state |-> "unknown", ci_conclusion |-> NoneValue,
     old_version |-> <<>>, new_version |-> <<>>, dependency_name |-> <<>>]

----------------------------------------------------------------------------
(* _fallback_decision *)

Verdict(decision, risk, source, reasoning) ==
    [decision |-> decision, risk |-> risk, source |-> source, reasoning |-> reasoning]

NoVerdict == Verdict("none", "none", "none", <<>>)

ReasoningLimit == 500

\* the sentence every fallback reasoning starts with
fallback_note == [t |-> "prose", v |-> "Fallback decision used due to parsing error."]

\* the reasoning of a fallback verdict: the note and llm_response[:500]; a
\* token is at least one character long, so the slice ends within the
\* first 500 tokens
fallback_reasoning(llm_response) ==
    <<fallback_note>> \o SubSeq(llm_response, 1, IF Len(llm_response) < ReasoningLimit
                                                  THEN Len(llm_response) ELSE ReasoningLimit)

\* the table behind a rule that blocks every draft
FallbackBlocksDrafts(context, llm_response) ==
    IF context.is_draft \/ context.ci_status = "failure" \/ ~context.mergeable
    THEN Verdict(MergeDecision.DO_NOT_MERGE, RiskLevel.CRITICAL, "fallback", fallback_reasoning(llm_response))
    ELSE IF context.update_type = "major"
    THEN Verdict(MergeDecision.REQUIRE_APPROVAL, RiskLevel.HIGH, "fallback", fallback_reasoning(llm_response))
    ELSE IF context.is_security_update \/ context.update_type \in {"minor", "patch"}
    THEN Verdict(MergeDecision.AUTO_MERGE, RiskLevel.LOW, "fallback", fallback_reasoning(llm_response))
    ELSE Verdict(MergeDecision.REQUIRE_APPROVAL, RiskLevel.MEDIUM, "fallback", fallback_reasoning(llm_response))

\* the table with its second and third rules exchanged
FallbackSecurityFirst(context, llm_response) ==
    IF context.ci_status = "failure" \/ ~context.mergeable
    THEN Verdict(MergeDecision.DO_NOT_MERGE, RiskLevel.CRITICAL, "fallback", fallback_reasoning(llm_response))
    ELSE IF context.is_security_update \/ context.update_type \in {"minor", "patch"}
    THEN Verdict(MergeDecision.AUTO_MERGE, RiskLevel.LOW, "fallback", fallback_reasoning(llm_response))
    ELSE IF context.update_type = "major"
    THEN Verdict(MergeDecision.REQUIRE_APPROVAL, RiskLevel.HIGH, "fallback", fallback_reasoning(llm_response))
    ELSE Verdict(MergeDecision.REQUIRE_APPROVAL, RiskLevel.MEDIUM, "fallback", fallback_reasoning(llm_response))

\* the table with "and" for "or" in its first rule
FallbackBlockNeedsBoth(context, llm_response) ==
    IF context.ci_status = "failure" /\ ~context.mergeable
    THEN Verdict(MergeDecision.DO_NOT_MERGE, RiskLevel.CRITICAL, "fallback", fallback_reasoning(llm_response))
    ELSE IF context.update_type = "major"
    THEN Verdict(MergeDecision.REQUIRE_APPROVAL, RiskLevel.HIGH, "fallback", fallback_reasoning(llm_response))
    ELSE IF context.is_security_update \/ context.update_type \in {"minor", "patch"}
    THEN Verdict(MergeDecision.AUTO_MERGE, RiskLevel.LOW, "fallback", fallback_reasoning(llm_response))
    ELSE Verdict(MergeDecision.REQUIRE_APPROVAL, RiskLevel.MEDIUM, "fallback", fallback_reasoning(llm_response))

\* the table whose third rule tests only the security flag
FallbackSecurityOnly(context, llm_response) ==
    IF context.ci_status = "failure" \/ ~context.mergeable
    THEN Verdict(MergeDecision.DO_NOT_MERGE, RiskLevel.CRITICAL, "fallback", fallback_reasoning(llm_response))
    ELSE IF context.update_type = "major"
    THEN Verdict(MergeDecision.REQUIRE_APPROVAL, RiskLevel.HIGH, "fallback", fallback_reasoning(llm_response))
    ELSE IF context.is_security_update
    THEN Verdict(MergeDecision.AUTO_MERGE, RiskLevel.LOW, "fallback", fallback_reasoning(llm_response))
    ELSE Verdict(MergeDecision.REQUIRE_APPROVAL, RiskLevel.MEDIUM, "fallback", fallback_reasoning(llm_response))

\* the table whose last rule auto-merges
FallbackDefaultMerges(context, llm_response) ==
    IF context.ci_status = "failure" \/ ~context.mergeable
    THEN Verdict(MergeDecision.DO_NOT_MERGE, RiskLevel.CRITICAL, "fallback", fallback_reasoning(llm_response))
    ELSE IF context.update_type = "major"
    THEN Verdict(MergeDecision.REQUIRE_APPROVAL, RiskLevel.HIGH, "fallback", fallback_reasoning(llm_response))
    ELSE Verdict(MergeDecision.AUTO_MERGE, RiskLevel.LOW, "fallback", fallback_reasoning(llm_response))

\* the four rules; llm_response is read by the reasoning alone
_fallback_decision(context, llm_response) ==
    IF context.ci_status = "failure" \/ ~context.mergeable
    THEN Verdict(MergeDecision.DO_NOT_MERGE, RiskLevel.CRITICAL, "fallback", fallback_reasoning(llm_response))
    ELSE IF context.update_type = "major"
    THEN Verdict(MergeDecision.REQUIRE_APPROVAL, RiskLevel.HIGH, "fallback", fallback_reasoning(llm_response))
    ELSE IF context.is_security_update \/ context.update_type \in {"minor", "patch"}
    THEN Verdict(MergeDecision.AUTO_MERGE, RiskLevel.LOW, "fallback", fallback_reasoning(llm_response))
    ELSE Verdict(MergeDecision.REQUIRE_APPROVAL, RiskLevel.MEDIUM, "fallback", fallback_reasoning(llm_response))

----------------------------------------------------------------------------
(* The final text: lexical tokens *)

LB == [t |-> "{", v |-> ""]
RB == [t |-> "}", v |-> ""]
Key(k) == [t |-> "key", v |-> k]
StrVal(x) == [t |-> "str", v |-> x]
Prose == [t |-> "prose", v |-> ""]

\* re.search(r"\{[\s\S]*\}", final_text): the star is greedy, so the match runs
\* from the first opening brace to the last closing brace; <<>> when no match
json_match(final_text) ==
    LET opens  == {i \in 1..Len(final_text) : final_text[i] = LB}
        closes == {i \in 1..Len(final_text) : final_text[i] = RB}
    IN  IF opens = {} \/ closes = {} THEN <<>>
        ELSE LET first == CHOOSE i \in opens : \A j \in opens : i <= j
                 last  == CHOOSE i \in closes : \A j \in closes : i >= j
             IN  IF first < last THEN SubSeq(final_text, first, last) ELSE <<>>

\* a JSON value that is an object, as the value of a key
ObjectValue == "<object>"

JsonFail == [ok |-> FALSE, next |-> 0, obj |-> <<>>]

Put(obj, k, x) == [y \in DOMAIN obj \cup {k} |-> IF y = k THEN x ELSE obj[y]]

\* the members of a JSON object and its closing brace, from index i of toks;
\* a repeated key keeps its last value
RECURSIVE ParseMembers(_, _, _)
ParseMembers(toks, i, acc) ==
    IF i > Len(toks) THEN JsonFail
    ELSE IF toks[i] = RB THEN [ok |-> TRUE, next |-> i + 1, obj |-> acc]
    ELSE IF toks[i].t = "key" /\ i + 1 <= Len(toks)
    THEN IF toks[i + 1].t = "str"
         THEN ParseMembers(toks, i + 2, Put(acc, toks[i].v, toks[i + 1].v))
         ELSE IF toks[i + 1] = LB
         THEN LET inner == ParseMembers(toks, i + 2, <<>>)
              IN  IF inner.ok
                  THEN ParseMembers(toks, inner.next, Put(acc, toks[i].v, ObjectValue))
                  ELSE JsonFail
         ELSE JsonFail
    ELSE JsonFail

\* json.loads of a text that starts with an opening brace: ok is FALSE when
\* it raises (malformed members, or text after the object)
json_loads(toks) ==
    LET r == ParseMembers(toks, 2, <<>>)
    IN  IF Len(toks) >= 2 /\ toks[1] = LB /\ r.ok /\ r.next = Len(toks) + 1
        THEN r
        ELSE JsonFail

----------------------------------------------------------------------------
(* decide_with_llm: parsing of the final text *)

\* an except branch that blocks the merge instead of asking the fallback policy
OnParseErrorBlocks(context, final_text) ==
    Verdict(MergeDecision.DO_NOT_MERGE, RiskLevel.CRITICAL, "fallback", fallback_reasoning(final_text))

\* the except branch of the parse
on_parse_error(context, final_text) == _fallback_decision(context, final_text)

\* the else branch of the parse: no brace group in the text
on_no_json(context, final_text) == _fallback_decision(context, final_text)

\* the body of the try block for a matched group
decision_from_json(context, final_text, group) ==
    LET decision_data == json_loads(group)
    IN  IF /\ decision_data.ok
           /\ "decision" \in DOMAIN decision_data.obj
           /\ decision_data.obj["decision"] \in DOMAIN MergeDecision
           /\ "risk_level" \in DOMAIN decision_data.obj
           /\ decision_data.obj["risk_level"] \in DOMAIN RiskLevel
           /\ "reasoning" \in DOMAIN decision_data.obj
        THEN Verdict(MergeDecision[decision_data.obj["decision"]],
                     RiskLevel[decision_data.obj["risk_level"]], "llm",
                     <<StrVal(decision_data.obj["reasoning"])>>)
        ELSE on_parse_error(context, final_text)

parse_decision(context, final_text) ==
    IF json_match(final_text) # <<>>
    THEN decision_from_json(context, final_text, json_match(final_text))
    ELSE on_no_json(context, final_text)

\* the concatenated text of the content blocks that have a text attribute
RECURSIVE final_text_of(_)
final_text_of(content) ==
    IF content = <<>> THEN <<>>
    ELSE (IF Head(content).type = "text" THEN Head(content).text ELSE <<>>)
         \o final_text_of(Tail(content))

----------------------------------------------------------------------------
(* Tools *)

DiffBudget == 2000
TruncationMarkerLen == 28

Observation(tag, len) == [kind |-> "str", tag |-> tag, len |-> len]
Raised(error) == [kind |-> "raise", tag |-> error, len |-> 0]

\* what the source-control host does with a diff request: it fails, or it
\* returns a text of some length
Transports ==
    {[ok |-> FALSE, len |-> 0]} \cup
    {[ok |-> TRUE, len |-> n] : n \in {0, DiffBudget, DiffBudget + 1}}

\* _make_request: requests.request(method, url, headers=self.headers, **kwargs)
\* raises TypeError when kwargs holds headers too, before anything is sent;
\* otherwise the response, or the HTTPError of raise_for_status
_make_request(kwargs, transport) ==
    IF "headers" \in kwargs THEN Raised("TypeError")
    ELSE IF transport.ok THEN [kind |-> "response", tag |-> "text", len |-> transport.len]
    ELSE Raised("HTTPError")

_fetch_release_notes == Observation("release_notes", 0)

_check_cve_database == Observation("cve_check", 0)

\* _analyze_diff passes its own headers to _make_request
_analyze_diff(transport) ==
    LET response_ == _make_request({"headers"}, transport)
    IN  IF response_.kind = "raise"
        THEN Observation("could_not_fetch_diff", 0)
        ELSE IF response_.len > DiffBudget
             THEN Observation("diff", DiffBudget + TruncationMarkerLen)
             ELSE Observation("diff", response_.len)

\* tool_input is the set of keys of the input dictionary; reading a key that
\* is absent raises KeyError
_execute_tool(tool_name, tool_input, transport) ==
    IF tool_name = "fetch_release_notes"
    THEN IF {"dependency", "version"} \subseteq tool_input
         THEN _fetch_release_notes ELSE Raised("KeyError")
    ELSE IF tool_name = "check_cve_database"
    THEN IF {"dependency", "version"} \subseteq tool_input
         THEN _check_cve_database ELSE Raised("KeyError")
    ELSE IF tool_name = "analyze_diff"
    THEN IF "pr_number" \in tool_input
         THEN _analyze_diff(transport) ELSE Raised("KeyError")
    ELSE Observation("unknown_tool", 0)

----------------------------------------------------------------------------
(* is_dependency_pr *)

known_bots == {"dependabot[bot]", "dependabot", "renovate[bot]", "renovate"}

kw_dep == <<"d", "e", "p">>
kw_bump == <<"b", "u", "m", "p">>
kw_update == <<"u", "p", "d", "a", "t", "e">>

IgnoresTheAuthor(pr_data, skip_author_check) ==
    LET labels      == [i \in 1..Len(pr_data.labels) |-> lower(pr_data.labels[i])]
        title_lower == lower(pr_data.title)
    IN  \/ \E i \in 1..Len(labels) : Contains(labels[i], kw_dep)
        \/ Contains(title_lower, kw_bump)
        \/ Contains(title_lower, kw_update)

is_dependency_pr(pr_data, skip_author_check) ==
    IF ~skip_author_check /\ pr_data.author \notin known_bots
    THEN FALSE
    ELSE LET labels      == [i \in 1..Len(pr_data.labels) |-> lower(pr_data.labels[i])]
             title_lower == lower(pr_data.title)
         IN  \/ \E i \in 1..Len(labels) : Contains(labels[i], kw_dep)
             \/ Contains(title_lower, kw_bump)
             \/ Contains(title_lower, kw_update)

----------------------------------------------------------------------------
(* _get_files_changed and gather_pr_context *)

FilesLimit == 10

\* the names of the first ten files, or the empty list when the fetch fails
_get_files_changed(fetch_ok, files) ==
    IF fetch_ok
    THEN SubSeq(files, 1, IF Len(files) < FilesLimit THEN Len(files) ELSE FilesLimit)
    ELSE <<>>

gather_pr_context(pr_data, checks_ok, files_ok) ==
    LET ci   == _get_ci_status(checks_ok, pr_data.check_runs)
        info == _parse_dependency_info(pr_data.title)
    IN  [is_draft |-> pr_data.draft,
         mergeable |-> pr_data.mergeable,
         ci_status |-> ci[1],
         update_type |-> info.update_type,
         is_security_update |-> _is_security_update(pr_data.labels, pr_data.body),
         files_changed |-> _get_files_changed(files_ok, pr_data.files),
         labels |-> pr_data.labels,
         mergeable_state |-> pr_data.mergeable_state,
         ci_conclusion |-> ci[2],
         old_version |-> info.old_version,
         new_version |-> info.new_version,
         dependency_name |-> info.dependency_name]

----------------------------------------------------------------------------
(* The pull requests and the reasoning-service responses of the model *)

title_patch == <<"B", "u", "m", "p", " ", "a", " ", "f", "r", "o", "m", " ", "1", ".", "6", ".", "0", " ", "t", "o", " ", "1", ".", "6", ".", "1">>
title_patch_b == <<"B", "u", "m", "p", " ", "b", " ", "f", "r", "o", "m", " ", "2", ".", "0", ".", "0", " ", "t", "o", " ", "2", ".", "0", ".", "1">>
title_minor == <<"B", "u", "m", "p", " ", "a", " ", "f", "r", "o", "m", " ", "1", "8", ".", "2", ".", "0", " ", "t", "o", " ", "1", "8", ".", "3", ".", "0">>
title_major == <<"B", "u", "m", "p", " ", "a", " ", "f", "r", "o", "m", " ", "1", "3", ".", "5", ".", "0", " ", "t", "o", " ", "1", "4", ".", "0", ".", "0">>
title_renovate == <<"U", "p", "d", "a", "t", "e", " ", "a", " ", "t", "o", " ", "1", ".", "1", ".", "0">>
title_feature == <<"A", "d", "d", " ", "n", "e", "w", " ", "f", "e", "a", "t", "u", "r", "e">>

label_dependencies == <<"d", "e", "p", "e", "n", "d", "e", "n", "c", "i", "e", "s">>
label_security == <<"s", "e", "c", "u", "r", "i", "t", "y">>
label_deps == <<"D", "e", "p", "s">>
body_plain == <<"R", "e", "g", "u", "l", "a", "r", " ", "u", "p", "d", "a", "t", "e">>
body_cve == <<"f", "i", "x", "e", "s", " ", "C", "V", "E", "-", "2", "0", "2", "4", "-", "1", "2", "3", "4">>

CheckRun(status, conclusion) == [status |-> status, conclusion |-> conclusion]

PullRequest(author, title, labels, body, draft, mergeable, check_runs) ==
    [author |-> author, title |-> title, labels |-> labels, body |-> body,
     draft |-> draft, mergeable |-> mergeable,
     mergeable_state |-> IF mergeable THEN "clean" ELSE "dirty",
     check_runs |-> check_runs, files |-> changed_files]

runs_green == <<CheckRun("completed", "success"), CheckRun("completed", "success")>>
runs_red == <<CheckRun("completed", "success"), CheckRun("completed", "failure")>>
runs_busy == <<CheckRun("in_progress", NoneValue), CheckRun("completed", "success")>>

PullRequests ==
    { PullRequest("dependabot[bot]", title_major, <<label_dependencies>>, body_plain,
                  TRUE, TRUE, runs_red),
      PullRequest("dependabot[bot]", title_patch, <<label_dependencies>>, body_plain,
                  FALSE, TRUE, runs_green),
      PullRequest("dependabot[bot]", title_minor, <<label_dependencies>>, body_plain,
                  FALSE, FALSE, runs_green),
      PullRequest("dependabot[bot]", title_major, <<label_dependencies, label_security>>,
                  body_plain, FALSE, TRUE, runs_green),
      PullRequest("renovate[bot]", title_renovate, <<>>, body_cve,
                  FALSE, TRUE, runs_busy),
      PullRequest("renovate[bot]", title_renovate, <<>>, body_plain,
                  FALSE, TRUE, runs_green),
      PullRequest("human-developer", title_feature, <<>>, body_plain,
                  FALSE, TRUE, runs_green),
      PullRequest("human-developer", title_feature, <<label_deps>>, body_plain,
                  FALSE, TRUE, runs_green),
      PullRequest("dependabot", title_feature, <<label_security>>, body_plain,
                  FALSE, TRUE, runs_green) }

VerdictObject(decision, risk) ==
    <<LB, Key("decision"), StrVal(decision), Key("risk_level"), StrVal(risk),
      Key("reasoning"), StrVal("why"), RB>>

TextBlock(text) == [type |-> "text", text |-> text, name |-> "", input |-> {}]
ToolUse(name, input) == [type |-> "tool_use", text |-> <<>>, name |-> name, input |-> input]

\* the texts of one text block in a run
BlockTexts ==
    { <<Prose>>,
      <<LB, Prose, RB>>,
      VerdictObject("AUTO_MERGE", "LOW"),
      VerdictObject("DO_NOT_MERGE", "CRITICAL"),
      VerdictObject("auto_merge", "low") }

ToolBlocks ==
    { ToolUse("fetch_release_notes", {"dependency", "version"}),
      ToolUse("fetch_release_notes", {"dependency"}),
      ToolUse("check_cve_database", {"dependency", "version"}),
      ToolUse("check_cve_database", {}),
      ToolUse("analyze_diff", {"pr_number"}),
      ToolUse("analyze_diff", {}),
      ToolUse("run_tests", {}) }

Blocks == {TextBlock(t) : t \in BlockTexts} \cup ToolBlocks

SeqsUpTo(S, n) == UNION {[1..k -> S] : k \in 0..n}

Responses ==
    [stop_reason : {"tool_use", "end_turn"}, content : SeqsUpTo(Blocks, MaxBlocks)]

NoResponse == [stop_reason |-> "none", content |-> <<>>]

----------------------------------------------------------------------------
(* The run: run(), decide_with_llm() and execute_action() *)

max_iterations == 5

----------------------------------------------------------------------------
(* main: the configuration read from the environment *)

\* os.environ.get(name) of a variable that is not set: None, kept apart
\* from every text because no text has an element of more than one character
Unset == <<NoneValue>>

\* an environment that holds every setting but SKIP_AUTHOR_CHECK
os_environ ==
    [GITHUB_TOKEN |-> <<"t">>, GITHUB_REPOSITORY |-> <<"o", "/", "r">>,
     PR_NUMBER |-> <<"7">>, ANTHROPIC_API_KEY |-> <<"k">>,
     SKIP_AUTHOR_CHECK |-> Unset]

\* a variable is unset, set to the empty string, or set to some text
Environments ==
    [GITHUB_TOKEN : {Unset, <<>>, <<"t">>},
     GITHUB_REPOSITORY : {Unset, <<>>, <<"o", "/", "r">>},
     PR_NUMBER : {Unset, <<>>, <<"7">>, <<"-", "7">>, <<"a", "b", "c">>, <<"7", ".", "5">>},
     ANTHROPIC_API_KEY : {Unset, <<>>, <<"k">>},
     SKIP_AUTHOR_CHECK : {Unset, <<"t", "r", "u", "e">>, <<"T", "r", "u", "e">>, <<"1">>}]

\* bool(value) of an environment value: None and the empty string are false
Truthy(value) == value # Unset /\ value # <<>>

\* int(text) returns a number: blanks around an optional sign and digits
IsIntLiteral(text) ==
    LET t == strip(text)
        d == IF t # <<>> /\ t[1] \in {"+", "-"} THEN Tail(t) ELSE t
    IN  d # <<>> /\ \A i \in 1..Len(d) : d[i] \in Digits

\* os.environ.get("SKIP_AUTHOR_CHECK", "false").lower() == "true"
skip_author_check ==
    /\ env.SKIP_AUTHOR_CHECK # Unset
    /\ lower(env.SKIP_AUTHOR_CHECK) = <<"t", "r", "u", "e">>

ValidConfigIgnoresNumber(environ) ==
    /\ Truthy(environ.GITHUB_TOKEN)
    /\ Truthy(environ.GITHUB_REPOSITORY)
    /\ Truthy(environ.PR_NUMBER)
    /\ Truthy(environ.ANTHROPIC_API_KEY)

\* the environment passes the checks of main
ValidConfig(environ) ==
    /\ Truthy(environ.GITHUB_TOKEN)
    /\ Truthy(environ.GITHUB_REPOSITORY)
    /\ Truthy(environ.PR_NUMBER)
    /\ Truthy(environ.ANTHROPIC_API_KEY)
    /\ IsIntLiteral(environ.PR_NUMBER)

\* the runs of the model: every pull request under the environment that
\* sets nothing optional, every environment that fails the checks, and the
\* pull requests of other authors under the environments that differ from
\* the first in one setting
Runs ==
    {run \in Environments \X PullRequests :
        \/ run[1] = os_environ
        \/ ~ValidConfig(run[1]) /\ run[2].draft
        \/ /\ ValidConfig(run[1])
           /\ run[2].author \notin known_bots
           /\ \/ run[1].PR_NUMBER = os_environ.PR_NUMBER
              \/ run[1].SKIP_AUTHOR_CHECK = os_environ.SKIP_AUTHOR_CHECK}

\* a request to the source-control host and whether it succeeded
Request(op, ok) == [op |-> op, ok |-> ok]

\* the requests that write to the pull request
WriteOps == {"comment", "merge", "labels"}

NoException == [in |-> "none", what |-> "none"]
Exception(where, what) == [in |-> where, what |-> what]

Init ==
    /\ pc = "main"
    /\ \E run \in Runs : env = run[1] /\ pr = run[2]
    /\ ctx = NoContext
    /\ iteration = 0
    /\ response = NoResponse
    /\ block = 0
    /\ messages = <<>>
    /\ results = <<>>
    /\ verdict = NoVerdict
    /\ calls = <<>>
    /\ exc = NoException
    /\ ret = NoneValue

\* main: the settings are read and checked; the bot is built and run, or
\* the process exits with status 1 before anything was requested
main ==
    /\ pc = "main"
    /\ pc' = IF ValidConfig(env) THEN "start" ELSE "config_error"
    /\ UNCHANGED <<pr, ctx, iteration, response, block, messages, results, verdict, calls, exc, ret, env>>

\* run: the dependency-PR precondition; its request may raise
CheckDependencyPR ==
    /\ pc = "start"
    /\ \E ok \in BOOLEAN :
          /\ calls' = Append(calls, Request("pulls", ok))
          /\ IF ok
             THEN /\ pc' = IF is_dependency_pr(pr, skip_author_check) THEN "gather" ELSE "skipped"
                  /\ exc' = exc
             ELSE /\ pc' = "raised"
                  /\ exc' = Exception("is_dependency_pr", "HTTPError")
    /\ UNCHANGED <<pr, ctx, iteration, response, block, messages, results, verdict, ret, env>>

\* run: gather_pr_context; the pull-request fetch may raise, the check-run
\* fetch degrades to unknown and the file fetch to the empty list;
\* decide_with_llm then seeds the conversation
GatherContext ==
    /\ pc = "gather"
    /\ \E pr_ok \in BOOLEAN, checks_ok \in BOOLEAN, files_ok \in BOOLEAN :
          IF pr_ok
          THEN /\ ctx' = gather_pr_context(pr, checks_ok, files_ok)
               /\ calls' = calls \o <<Request("pulls", TRUE), Request("check-runs", checks_ok),
                                      Request("files", files_ok)>>
               /\ messages' = <<"user">>
               /\ pc' = "request"
               /\ exc' = exc
          ELSE /\ pc' = "raised"
               /\ calls' = Append(calls, Request("pulls", FALSE))
               /\ exc' = Exception("gather_pr_context", "HTTPError")
               /\ UNCHANGED <<ctx, messages>>
    /\ UNCHANGED <<pr, iteration, response, block, results, verdict, ret, env>>

\* a loop that runs the tools of every response that lists one
CallModelRunsListedTools(answers) ==
    /\ pc = "request"
    /\ iteration < max_iterations
    /\ \E r \in answers :
          /\ response' = r
          /\ IF \E i \in 1..Len(r.content) : r.content[i].type = "tool_use"
             THEN pc' = "tools" /\ block' = 1
             ELSE pc' = "extract" /\ block' = 0
    /\ iteration' = iteration + 1
    /\ results' = <<>>
    /\ UNCHANGED <<pr, ctx, messages, verdict, calls, exc, ret, env>>

\* one pass of the for loop up to the stop_reason test: a request to the
\* reasoning service, which answers with one of answers
CallModelFrom(answers) ==
    /\ pc = "request"
    /\ iteration < max_iterations
    /\ \E r \in answers :
          /\ response' = r
          /\ IF r.stop_reason = "tool_use"
             THEN pc' = "tools" /\ block' = 1
             ELSE pc' = "extract" /\ block' = 0
    /\ iteration' = iteration + 1
    /\ results' = <<>>
    /\ UNCHANGED <<pr, ctx, messages, verdict, calls, exc, ret, env>>

\* the request of a run: every response of the model may answer it
CallModel == CallModelFrom(Responses)

\* an inner loop whose tools label the pull request
ExecuteToolBlockLabels ==
    /\ pc = "tools"
    /\ block <= Len(response.content)
    /\ response.content[block].type = "tool_use"
    /\ \E transport \in Transports :
          LET tool_result == _execute_tool(response.content[block].name,
                                           response.content[block].input, transport)
          IN  IF tool_result.kind = "raise"
              THEN /\ pc' = "raised"
                   /\ exc' = Exception("_execute_tool", tool_result.tag)
                   /\ UNCHANGED <<results, block, calls>>
              ELSE /\ results' = Append(results, [tool_use_id |-> block,
                                                  content |-> tool_result])
                   /\ calls' = Append(calls, Request("labels", TRUE))
                   /\ block' = block + 1
                   /\ pc' = "tools"
                   /\ exc' = exc
    /\ UNCHANGED <<pr, ctx, iteration, response, messages, verdict, ret, env>>

\* an inner loop that puts the newest result first
ExecuteToolBlockPrepends ==
    /\ pc = "tools"
    /\ block <= Len(response.content)
    /\ response.content[block].type = "tool_use"
    /\ \E transport \in Transports :
          LET tool_result == _execute_tool(response.content[block].name,
                                           response.content[block].input, transport)
          IN  IF tool_result.kind = "raise"
              THEN /\ pc' = "raised"
                   /\ exc' = Exception("_execute_tool", tool_result.tag)
                   /\ UNCHANGED <<results, block>>
              ELSE /\ results' = <<[tool_use_id |-> block, content |-> tool_result]>> \o results
                   /\ block' = block + 1
                   /\ pc' = "tools"
                   /\ exc' = exc
    /\ UNCHANGED <<pr, ctx, iteration, response, messages, verdict, calls, ret, env>>

\* the inner loop at a tool_use block: the tool runs and its result is kept,
\* or its exception leaves _execute_tool, decide_with_llm and run
ExecuteToolBlock ==
    /\ pc = "tools"
    /\ block <= Len(response.content)
    /\ response.content[block].type = "tool_use"
    /\ \E transport \in Transports :
          LET tool_result == _execute_tool(response.content[block].name,
                                           response.content[block].input, transport)
          IN  IF tool_result.kind = "raise"
              THEN /\ pc' = "raised"
                   /\ exc' = Exception("_execute_tool", tool_result.tag)
                   /\ UNCHANGED <<results, block>>
              ELSE /\ results' = Append(results, [tool_use_id |-> block,
                                                  content |-> tool_result])
                   /\ block' = block + 1
                   /\ pc' = "tools"
                   /\ exc' = exc
    /\ UNCHANGED <<pr, ctx, iteration, response, messages, verdict, calls, ret, env>>

\* the inner loop at a block that is no tool_use
SkipOtherBlock ==
    /\ pc = "tools"
    /\ block <= Len(response.content)
    /\ response.content[block].type # "tool_use"
    /\ block' = block + 1
    /\ UNCHANGED <<pc, pr, ctx, iteration, response, messages, results, verdict, calls, exc, ret, env>>

\* a round that keeps the first message and the newest two
EndRoundRewrites(assistant_message, user_message) ==
    /\ pc = "tools"
    /\ block > Len(response.content)
    /\ messages' = <<messages[1], assistant_message, user_message>>
    /\ IF iteration < max_iterations
       THEN pc' = "request" /\ response' = NoResponse /\ results' = <<>> /\ block' = 0
       ELSE pc' = "extract" /\ UNCHANGED <<response, results, block>>
    /\ UNCHANGED <<pr, ctx, iteration, verdict, calls, exc, ret, env>>

\* after the inner loop: two messages are appended and the for loop goes on,
\* or ends when its range is used up.  When it goes on, the next pass assigns
\* response and tool_results before reading them, so they are cleared here.
EndRoundAppending(assistant_message, user_message) ==
    /\ pc = "tools"
    /\ block > Len(response.content)
    /\ messages' = messages \o <<assistant_message, user_message>>
    /\ IF iteration < max_iterations
       THEN pc' = "request" /\ response' = NoResponse /\ results' = <<>> /\ block' = 0
       ELSE pc' = "extract" /\ UNCHANGED <<response, results, block>>
    /\ UNCHANGED <<pr, ctx, iteration, verdict, calls, exc, ret, env>>

\* the round of a run, whose messages are kept by their roles
EndRound == EndRoundAppending("assistant", "user")

\* an extraction that reads the text of a final answer only
ExtractSkipsToolRounds ==
    /\ pc = "extract"
    /\ verdict' = IF response.stop_reason = "tool_use"
                  THEN _fallback_decision(ctx, <<>>)
                  ELSE parse_decision(ctx, final_text_of(response.content))
    /\ pc' = "act"
    /\ UNCHANGED <<pr, ctx, iteration, response, block, messages, results, calls, exc, ret, env>>

\* the final text of the last response is parsed; decide_with_llm returns
ExtractVerdict ==
    /\ pc = "extract"
    /\ verdict' = parse_decision(ctx, final_text_of(response.content))
    /\ pc' = "act"
    /\ UNCHANGED <<pr, ctx, iteration, response, block, messages, results, calls, exc, ret, env>>

\* a dispatch that merges whatever is not blocked
DispatchMergesUnlessBlocked ==
    /\ pc = "act"
    /\ pc' = IF verdict.decision = MergeDecision.DO_NOT_MERGE THEN "_add_blocking_comment"
             ELSE "_auto_merge"
    /\ UNCHANGED <<pr, ctx, iteration, response, block, messages, results, verdict, calls, exc, ret, env>>

\* execute_action: the three-way dispatch
execute_action ==
    /\ pc = "act"
    /\ pc' = IF verdict.decision = MergeDecision.AUTO_MERGE THEN "_auto_merge"
             ELSE IF verdict.decision = MergeDecision.REQUIRE_APPROVAL THEN "_request_review"
             ELSE "_add_blocking_comment"
    /\ UNCHANGED <<pr, ctx, iteration, response, block, messages, results, verdict, calls, exc, ret, env>>

\* a blocking path that posts nothing
BlockingPathIsSilent ==
    /\ pc \in {"_auto_merge", "_request_review", "_add_blocking_comment"}
    /\ \E ok \in BOOLEAN :
          IF pc = "_add_blocking_comment"
          THEN pc' = "done" /\ UNCHANGED <<calls, exc>>
          ELSE /\ calls' = Append(calls, Request("comment", ok))
               /\ pc' = IF ~ok THEN "raised"
                        ELSE IF pc = "_auto_merge" THEN "merge" ELSE "labels"
               /\ exc' = IF ok THEN exc ELSE Exception("_add_comment", "HTTPError")
    /\ UNCHANGED <<pr, ctx, iteration, response, block, messages, results, verdict, ret, env>>

\* a comment whose failure is only printed
CommentFailureIsLogged ==
    /\ pc \in {"_auto_merge", "_request_review", "_add_blocking_comment"}
    /\ \E ok \in BOOLEAN :
          /\ calls' = Append(calls, Request("comment", ok))
          /\ pc' = IF pc = "_auto_merge" THEN "merge"
                   ELSE IF pc = "_request_review" THEN "labels"
                   ELSE "done"
          /\ exc' = exc
    /\ UNCHANGED <<pr, ctx, iteration, response, block, messages, results, verdict, ret, env>>

\* _add_comment, the first request of each of the three paths; it may raise
_add_comment ==
    /\ pc \in {"_auto_merge", "_request_review", "_add_blocking_comment"}
    /\ \E ok \in BOOLEAN :
          /\ calls' = Append(calls, Request("comment", ok))
          /\ pc' = IF ~ok THEN "raised"
                   ELSE IF pc = "_auto_merge" THEN "merge"
                   ELSE IF pc = "_request_review" THEN "labels"
                   ELSE "done"
          /\ exc' = IF ok THEN exc ELSE Exception("_add_comment", "HTTPError")
    /\ UNCHANGED <<pr, ctx, iteration, response, block, messages, results, verdict, ret, env>>

\* a merge request whose failure is only printed
MergeFailureIsLogged ==
    /\ pc = "merge"
    /\ \E ok \in BOOLEAN :
          calls' = Append(calls, Request("merge", ok))
    /\ pc' = "done"
    /\ UNCHANGED <<pr, ctx, iteration, response, block, messages, results, verdict, exc, ret, env>>

\* _auto_merge: the merge request; its failure is raised again
MergeRequest ==
    /\ pc = "merge"
    /\ \E ok \in BOOLEAN :
          /\ calls' = Append(calls, Request("merge", ok))
          /\ pc' = IF ok THEN "done" ELSE "raised"
          /\ exc' = IF ok THEN exc ELSE Exception("_auto_merge", "HTTPError")
    /\ UNCHANGED <<pr, ctx, iteration, response, block, messages, results, verdict, ret, env>>

\* a label request whose failure is raised
LabelFailureRaises ==
    /\ pc = "labels"
    /\ \E ok \in BOOLEAN :
          /\ calls' = Append(calls, Request("labels", ok))
          /\ pc' = IF ok THEN "done" ELSE "raised"
          /\ exc' = IF ok THEN exc ELSE Exception("_request_review", "HTTPError")
    /\ UNCHANGED <<pr, ctx, iteration, response, block, messages, results, verdict, ret, env>>

\* _request_review: the label request; its failure is only printed
_add_labels ==
    /\ pc = "labels"
    /\ \E ok \in BOOLEAN :
          calls' = Append(calls, Request("labels", ok))
    /\ pc' = "done"
    /\ UNCHANGED <<pr, ctx, iteration, response, block, messages, results, verdict, exc, ret, env>>

Next ==
    \/ main
    \/ CheckDependencyPR
    \/ GatherContext
    \/ CallModel
    \/ ExecuteToolBlock
    \/ SkipOtherBlock
    \/ EndRound
    \/ ExtractVerdict
    \/ execute_action
    \/ _add_comment
    \/ MergeRequest
    \/ _add_labels

Spec == Init /\ [][Next]_vars

\* run reached its last line and reported successful completion
Completed == pc = "done"

\* main: the status the process ends with; a configuration error and every
\* exception that leaves run are answered with sys.exit(1)
ExitStatus == IF pc \in {"raised", "config_error"} THEN 1 ELSE 0

----------------------------------------------------------------------------
(* Specifications of single functions.  Each context is paired with a pull *)
(* request from which gather_pr_context builds it.                         *)

PullRequestFor(context) ==
    PullRequest("dependabot[bot]",
                CASE context.update_type = "patch" -> title_patch
                  [] context.update_type = "minor" -> title_minor
                  [] context.update_type = "major" -> title_major
                  [] OTHER -> title_renovate,
                IF context.is_security_update THEN <<label_security>> ELSE <<label_dependencies>>,
                body_plain, context.is_draft, context.mergeable,
                CASE context.ci_status = "success" -> runs_green
                  [] context.ci_status = "failure" -> runs_red
                  [] OTHER -> runs_busy)

\* the pull requests that differ from pr_data in fields the context only carries
Variants(pr_data) ==
    {[pr_data EXCEPT !.mergeable_state = state, !.labels = @ \o more, !.title = title] :
        state \in {pr_data.mergeable_state, "unstable"},
        more \in {<<>>, <<label_deps>>},
        title \in {pr_data.title} \cup (IF pr_data.title = title_patch THEN {title_patch_b} ELSE {})}

\* the contexts of the fallback specification, each with its pull request
FallbackInputs ==
    UNION {{[pr |-> p, ctx |-> gather_pr_context(p, c.ci_status # "unknown", c.files_changed # <<>>)] :
              p \in Variants(PullRequestFor(c))} : c \in PRContext}

\* the texts a fallback is asked with: no text, prose, an object cut short
FallbackTexts == {<<>>, <<Prose>>, <<LB, Key("decision"), StrVal("AUTO_MERGE")>>}

\* the fallback table applied to every context
InitFallback ==
    /\ pc = "fallback_input"
    /\ \E input \in FallbackInputs :
          /\ ctx = input.ctx
          /\ pr = input.pr
          /\ Branches(ctx) \in PRContext
    /\ iteration = 0
    /\ response = NoResponse
    /\ block = 0
    /\ messages = <<>>
    /\ results = <<>>
    /\ verdict = NoVerdict
    /\ calls = <<>>
    /\ exc = NoException
    /\ ret = NoneValue
    /\ env = os_environ

ApplyFallback ==
    /\ pc = "fallback_input"
    /\ \E llm_response \in FallbackTexts : verdict' = _fallback_decision(ctx, llm_response)
    /\ pc' = "fallback_done"
    /\ UNCHANGED <<pr, ctx, iteration, response, block, messages, results, calls, exc, ret, env>>

NextFallback == ApplyFallback

SpecFallback == InitFallback /\ [][NextFallback]_vars

\* the pieces a final text is made of
Chunks ==
    { <<Prose>>,
      <<LB>>,
      <<RB>>,
      VerdictObject("AUTO_MERGE", "LOW"),
      VerdictObject("DO_NOT_MERGE", "CRITICAL"),
      VerdictObject("auto_merge", "low"),
      <<LB, Key("decision"), StrVal("AUTO_MERGE"), Key("reasoning"), StrVal("why"), RB>>,
      <<LB, Key("decision"), StrVal("REQUIRE_APPROVAL"), Key("risk_level"), StrVal("HIGH"),
        Key("reasoning"), StrVal("why"), Key("key_factors"), LB, RB, RB>> }

FinalResponses ==
    {[stop_reason |-> "end_turn", content |-> [i \in 1..Len(c) |-> TextBlock(c[i])]] :
        c \in SeqsUpTo(Chunks, MaxChunks)}

\* the contexts of the extraction specification: one for each rule of the
\* fallback table and for each value of every field
ExtractContexts ==
    {c \in PRContext :
        /\ c.files_changed = IF c.is_security_update THEN <<>> ELSE changed_files
        /\ \/ c.ci_status \in {"success", "failure"} /\ c.is_draft = (c.ci_status = "failure")
           \/ c.ci_status = "pending" /\ ~c.is_draft /\ c.mergeable /\ c.update_type = "unknown"}

\* decide_with_llm after a first response that requests no tool
InitExtract ==
    /\ pc = "extract"
    /\ \E c \in ExtractContexts :
          /\ pr = PullRequestFor(c)
          /\ ctx = gather_pr_context(pr, c.ci_status # "unknown", c.files_changed # <<>>)
          /\ Branches(ctx) = c
    /\ iteration = 1
    /\ response \in FinalResponses
    /\ block = 0
    /\ messages = <<"user">>
    /\ results = <<>>
    /\ verdict = NoVerdict
    /\ calls = <<Request("pulls", TRUE), Request("pulls", TRUE),
                 Request("check-runs", ctx.ci_status # "unknown"),
                 Request("files", ctx.files_changed # <<>>)>>
    /\ exc = NoException
    /\ ret = NoneValue
    /\ env = os_environ

NextExtract == ExtractVerdict

SpecExtract == InitExtract /\ [][NextExtract]_vars

----------------------------------------------------------------------------
(* decide_with_llm on its own: the conversation is kept with its contents *)

Message(role, content) == [role |-> role, content |-> content]

\* the first message of the conversation: the prompt built from the context
user_message == <<Prose>>

\* the responses of the loop specification: tool requests between text, a
\* verdict beside tool requests, a request that lacks a required field, a
\* tool_use stop without a request, a request without text, a final
\* verdict, and an answer cut short after a tool request
LoopResponses ==
    { [stop_reason |-> "tool_use",
       content |-> <<TextBlock(<<Prose>>),
                     ToolUse("fetch_release_notes", {"dependency", "version"}),
                     ToolUse("check_cve_database", {"dependency", "version"})>>],
      [stop_reason |-> "tool_use",
       content |-> <<ToolUse("analyze_diff", {"pr_number"}),
                     TextBlock(VerdictObject("AUTO_MERGE", "LOW")),
                     ToolUse("run_tests", {})>>],
      [stop_reason |-> "tool_use",
       content |-> <<ToolUse("fetch_release_notes", {"dependency"})>>],
      [stop_reason |-> "tool_use", content |-> <<TextBlock(<<Prose>>)>>],
      [stop_reason |-> "tool_use",
       content |-> <<ToolUse("check_cve_database", {"dependency", "version"})>>],
      [stop_reason |-> "end_turn",
       content |-> <<TextBlock(VerdictObject("DO_NOT_MERGE", "CRITICAL"))>>],
      [stop_reason |-> "max_tokens",
       content |-> <<TextBlock(<<Prose>>),
                     ToolUse("check_cve_database", {"dependency", "version"})>>] }

\* the pull requests of the loop specification
LoopPullRequests ==
    { PullRequest("dependabot[bot]", title_patch, <<label_dependencies>>, body_plain,
                  FALSE, TRUE, runs_green),
      PullRequest("dependabot[bot]", title_major, <<label_dependencies>>, body_plain,
                  TRUE, TRUE, runs_red) }

\* decide_with_llm is entered with a context and the first message
InitLoop ==
    /\ pc = "request"
    /\ pr \in LoopPullRequests
    /\ ctx = gather_pr_context(pr, TRUE, TRUE)
    /\ iteration = 0
    /\ response = NoResponse
    /\ block = 0
    /\ messages = <<Message("user", user_message)>>
    /\ results = <<>>
    /\ verdict = NoVerdict
    /\ calls = <<Request("pulls", TRUE), Request("pulls", TRUE),
                 Request("check-runs", TRUE), Request("files", TRUE)>>
    /\ exc = NoException
    /\ ret = NoneValue
    /\ env = os_environ

\* the request of the loop specification
CallModelOfLoop == CallModelFrom(LoopResponses)

\* the round of the loop specification: the content blocks of the response
\* and the tool results are appended
EndRoundOfLoop ==
    EndRoundAppending(Message("assistant", response.content), Message("user", results))

NextLoop ==
    \/ CallModelOfLoop
    \/ ExecuteToolBlock
    \/ SkipOtherBlock
    \/ EndRoundOfLoop
    \/ ExtractVerdict

SpecLoop == InitLoop /\ [][NextLoop]_vars

----------------------------------------------------------------------------
(* _get_ci_status on its own, for every list of check runs *)

\* a check run as the host reports it: a run that has not completed has no
\* conclusion, a completed run has one of the host's conclusions or none
CheckRunKinds ==
    {CheckRun(st, NoneValue) : st \in {"queued", "in_progress"}} \cup
    {CheckRun("completed", c) :
        c \in {"success", "failure", "cancelled", "timed_out", "neutral", "skipped", NoneValue}}

CheckRunLists == SeqsUpTo(CheckRunKinds, MaxRuns)

InitCIStatus ==
    /\ pc = "ci_input"
    /\ \E runs \in CheckRunLists :
          pr = PullRequest("dependabot[bot]", title_patch, <<label_dependencies>>,
                           body_plain, FALSE, TRUE, runs)
    /\ ctx = NoContext
    /\ iteration = 0
    /\ response = NoResponse
    /\ block = 0
    /\ messages = <<>>
    /\ results = <<>>
    /\ verdict = NoVerdict
    /\ calls = <<>>
    /\ exc = NoException
    /\ ret = NoneValue
    /\ env = os_environ

Apply_get_ci_status ==
    /\ pc = "ci_input"
    /\ \E fetch_ok \in BOOLEAN :
          /\ ret' = _get_ci_status(fetch_ok, pr.check_runs)
          /\ calls' = Append(calls, Request("check-runs", fetch_ok))
    /\ pc' = "ci_done"
    /\ UNCHANGED <<pr, ctx, iteration, response, block, messages, results, verdict, exc, env>>

NextCIStatus == Apply_get_ci_status

SpecCIStatus == InitCIStatus /\ [][NextCIStatus]_vars

----------------------------------------------------------------------------
(* _parse_dependency_info on its own, for titles with and without a pair *)

VersionChars == {"1", "2", "."}

\* the strings a title may carry in the place of a version
Versions == UNION {[1..n -> VersionChars] : n \in 1..MaxVersionLen}

title_head == <<"B", "u", "m", "p", " ", "a", " ">>

Titles ==
    {title_head \o lit_from \o v1 \o lit_to \o v2 : v1 \in Versions, v2 \in Versions} \cup
    {title_patch, title_minor, title_major, title_renovate, title_feature,
     title_head \o <<"f", "r", "o", "m", " ", "1", ".", "0", " ", "t", "o">>,
     title_head \o <<"f", "r", "o", "m", " ", "1", ".", "0", "-", "b", "1", " ", "t", "o", " ", "1", ".", "0">>,
     title_head \o <<"F", "R", "O", "M", " ", "1", " ", "T", "O", " ", "2">>,
     title_head \o <<"f", "r", "o", "m", " ", "v", "1", " ", "t", "o", " ", "v", "2">>}

InitParse ==
    /\ pc = "parse_input"
    /\ \E title \in Titles :
          pr = PullRequest("dependabot[bot]", title, <<label_dependencies>>,
                           body_plain, FALSE, TRUE, runs_green)
    /\ ctx = NoContext
    /\ iteration = 0
    /\ response = NoResponse
    /\ block = 0
    /\ messages = <<>>
    /\ results = <<>>
    /\ verdict = NoVerdict
    /\ calls = <<>>
    /\ exc = NoException
    /\ ret = NoneValue
    /\ env = os_environ

Apply_parse_dependency_info ==
    /\ pc = "parse_input"
    /\ ret' = _parse_dependency_info(pr.title)
    /\ pc' = "parse_done"
    /\ UNCHANGED <<pr, ctx, iteration, response, block, messages, results, verdict, calls, exc, env>>

NextParse == Apply_parse_dependency_info

SpecParse == InitParse /\ [][NextParse]_vars

----------------------------------------------------------------------------
(* _is_security_update on its own: label lists and bodies *)

MaxLabels == 2

label_security_caps == <<"S", "e", "c", "u", "r", "i", "t", "y", "-", "F", "i", "x">>
label_sec == <<"s", "e", "c">>

body_empty == <<>>
body_regular == <<"R", "e", "g", "u", "l", "a", "r", " ", "d", "e", "p", "e", "n", "d", "e", "n", "c", "y", " ", "u", "p", "d", "a", "t", "e">>
body_vulnerability == <<"T", "h", "i", "s", " ", "r", "e", "l", "e", "a", "s", "e", " ", "a", "d", "d", "r", "e", "s", "s", "e", "s", " ", "a", " ", "c", "r", "i", "t", "i", "c", "a", "l", " ", "V", "u", "l", "n", "e", "r", "a", "b", "i", "l", "i", "t", "y">>
body_security == <<"S", "E", "C", "U", "R", "I", "T", "Y", " ", "p", "a", "t", "c", "h">>
body_secure == <<"s", "e", "c", "u", "r", "e", " ", "c", "v", " ", "e">>

LabelNames == {label_dependencies, label_security, label_security_caps, label_sec}

LabelLists == SeqsUpTo(LabelNames, MaxLabels)

Bodies ==
    {body_empty, body_regular, body_plain, body_cve, body_vulnerability,
     body_security, body_secure}

InitSecurity ==
    /\ pc = "security_input"
    /\ \E labels \in LabelLists, body \in Bodies :
          pr = PullRequest("dependabot[bot]", title_patch, labels, body,
                           FALSE, TRUE, runs_green)
    /\ ctx = NoContext
    /\ iteration = 0
    /\ response = NoResponse
    /\ block = 0
    /\ messages = <<>>
    /\ results = <<>>
    /\ verdict = NoVerdict
    /\ calls = <<>>
    /\ exc = NoException
    /\ ret = NoneValue
    /\ env = os_environ

Apply_is_security_update ==
    /\ pc = "security_input"
    /\ ret' = _is_security_update(pr.labels, pr.body)
    /\ pc' = "security_done"
    /\ UNCHANGED <<pr, ctx, iteration, response, block, messages, results, verdict, calls, exc, env>>

NextSecurity == Apply_is_security_update

SpecSecurity == InitSecurity /\ [][NextSecurity]_vars

----------------------------------------------------------------------------
(* Claims about _fallback_decision, under SpecFallback *)

FallbackApplied == pc = "fallback_done"

\* C2 (as stated): for every context whose bump category is unknown, whatever
\* its security flag, CI status and mergeable flag, the fallback policy
\* returns a decision other than auto_merge.
C2_NeverAutoMergesUnknown ==
    FallbackApplied /\ ctx.update_type = "unknown"
        => verdict.decision # "auto_merge"

\* C2 (amended): for every context whose bump category is unknown and whose
\* security flag is not set, the fallback policy returns a decision other
\* than auto_merge; with the security flag set, a mergeable pull request
\* whose CI status is not failure is auto-merged although its category is
\* unknown.
C2_UnknownAutoMergesOnlyIfSecurity ==
    FallbackApplied /\ ctx.update_type = "unknown"
        => /\ ~ctx.is_security_update => verdict.decision # "auto_merge"
           /\ ctx.is_security_update /\ ctx.mergeable /\ ctx.ci_status # "failure"
                  => verdict.decision = "auto_merge"

C2_Witness ==
    /\ FallbackApplied
    /\ ctx.update_type = "unknown"
    /\ ~ctx.is_security_update
    /\ ctx.mergeable
    /\ ctx.ci_status = "pending"
    /\ verdict.decision = "require_approval"

\* C3: for every context whose CI status is failure or whose mergeable flag
\* is false, the fallback policy returns (do_not_merge, critical), whatever
\* the bump category, the security flag and the draft flag.
C3_FailureOrConflictBlocks ==
    FallbackApplied /\ (ctx.ci_status = "failure" \/ ~ctx.mergeable)
        => verdict.decision = "do_not_merge" /\ verdict.risk = "critical"

C3_Witness ==
    /\ FallbackApplied
    /\ ctx.ci_status = "failure"
    /\ ctx.mergeable
    /\ ctx.is_security_update
    /\ ctx.update_type = "patch"
    /\ ~ctx.is_draft
    /\ verdict.decision = "do_not_merge"

TableRule(context) ==
    CASE context.ci_status = "failure" \/ ~context.mergeable -> 1
      [] context.ci_status # "failure" /\ context.mergeable
             /\ context.update_type = "major" -> 2
      [] context.ci_status # "failure" /\ context.mergeable
             /\ context.update_type # "major"
             /\ (context.is_security_update \/ context.update_type \in {"minor", "patch"}) -> 3
      [] OTHER -> 4

TableDecision == <<"do_not_merge", "require_approval", "auto_merge", "require_approval">>
TableRisk == <<"critical", "high", "low", "medium">>

\* C5: the fallback policy is total and equals the four-rule priority
\* table: for every context it returns exactly one verdict, whose decision
\* and risk are defined enum members, namely (do_not_merge, critical) if CI
\* is failure or the pull request is not mergeable; else (require_approval,
\* high) if major, also when the security flag is set; else (auto_merge,
\* low) if security or minor or patch; else (require_approval, medium).
C5_FallbackIsTheTable ==
    FallbackApplied
        => /\ verdict.decision \in Range(MergeDecision)
           /\ verdict.risk \in Range(RiskLevel)
           /\ verdict.decision = TableDecision[TableRule(ctx)]
           /\ verdict.risk = TableRisk[TableRule(ctx)]

C5_Witness ==
    /\ FallbackApplied
    /\ ctx.update_type = "major"
    /\ ctx.is_security_update
    /\ ctx.mergeable
    /\ ctx.ci_status = "success"
    /\ verdict.decision = "require_approval"
    /\ verdict.risk = "high"

----------------------------------------------------------------------------
(* Claims about a run, under Spec *)

MergeIssued == \E i \in 1..Len(calls) : calls[i].op = "merge"

\* C1: for a draft pull request carrying a major bump with CI status
\* failure, a run ends with decision do_not_merge and issues no merge
\* request, whatever the reasoning service answers: both when the final
\* text parses into a verdict and when the fallback policy is used.
C1_DraftMajorFailingIsNeverMerged ==
    ctx.is_draft /\ ctx.update_type = "major" /\ ctx.ci_status = "failure"
        => /\ verdict # NoVerdict => verdict.decision = "do_not_merge"
           /\ ~MergeIssued

\* C6: the reasoning loop is bounded: for every behaviour of the reasoning
\* service decide_with_llm issues at most 5 requests, never a 6th, and it
\* leaves the loop only by handing the last response to verdict extraction.
C6_LoopEndsInExtractionWithinFiveRequests ==
    /\ [](iteration <= 5 /\ (pc = "request" => iteration < 5))
    /\ [][(pc \in {"request", "tools"} /\ pc' \notin {"request", "tools"})
            => (pc' = "extract" /\ response' # NoResponse)]_vars

\* the bound of the loop alone: at most 5 requests, and a request is issued
\* only while fewer than 5 were issued
LoopBound ==
    /\ iteration <= 5
    /\ (pc = "request" => iteration < 5)
    /\ (pc \in {"extract", "act"} => iteration \in 1..5 /\ response # NoResponse)

\* C7: decide_with_llm always produces a Verdict and never lets an exception
\* escape, for every context and every sequence of responses, tool requests
\* with arguments that lack a required field included: a run that entered
\* decide_with_llm and has ended has a verdict.
C7_DecideAlwaysReturnsAVerdict ==
    pc \in {"done", "raised"} /\ iteration >= 1
        => /\ verdict.decision \in Range(MergeDecision)
           /\ verdict.risk \in Range(RiskLevel)

\* C10: the tool invoker never raises: every tool request that is executed,
\* for each of the three tools while its underlying call fails and for a
\* tool name outside the three, appends a string observation to the results
\* of the round and the loop goes on; no exception escapes _execute_tool.
C10_EveryToolRequestYieldsAString ==
    [][(/\ pc = "tools"
        /\ block <= Len(response.content)
        /\ response.content[block].type = "tool_use")
            => (/\ pc' = "tools"
                /\ Len(results') = Len(results) + 1
                /\ results'[Len(results')].content.kind = "str")]_vars

\* the part of C10 that holds: a failing diff request and an unknown tool
\* name yield string observations
FailedDiffIsAnObservation ==
    \A i \in 1..Len(results) :
        /\ results[i].content.kind = "str"
        /\ response.content[results[i].tool_use_id].type = "tool_use"

----------------------------------------------------------------------------
(* Claims about execute_action, under Spec *)

\* the positions of the requests of one kind in the log
Calls(op) == {i \in 1..Len(calls) : calls[i].op = op}

Writes == {i \in 1..Len(calls) : calls[i].op \in WriteOps}

\* C11: execute_action performs exactly one of three mutually exclusive
\* effects per verdict: a merge request is issued only if the decision is
\* auto_merge, a label request only if it is require_approval, a do_not_merge
\* decision issues neither, no run issues both, and every path posts exactly
\* one comment.
C11_OneEffectPerVerdict ==
    /\ Calls("merge") # {} => verdict.decision = "auto_merge"
    /\ Calls("labels") # {} => verdict.decision = "require_approval"
    /\ ~(Calls("merge") # {} /\ Calls("labels") # {})
    /\ Cardinality(Calls("comment")) <= 1
    /\ Cardinality(Calls("merge")) <= 1
    /\ Cardinality(Calls("labels")) <= 1
    /\ pc \in {"merge", "labels", "done"}
           => \E i \in 1..Len(calls) : Calls("comment") = {i} /\ calls[i].ok
    /\ pc = "done"
           => /\ Cardinality(Calls("merge")) =
                     IF verdict.decision = "auto_merge" THEN 1 ELSE 0
              /\ Cardinality(Calls("labels")) =
                     IF verdict.decision = "require_approval" THEN 1 ELSE 0

C11_Witness ==
    /\ pc = "done"
    /\ verdict.decision = "require_approval"
    /\ Cardinality(Calls("comment")) = 1
    /\ Cardinality(Calls("labels")) = 1
    /\ Calls("merge") = {}

\* C12: a merge request that fails is fatal: on the auto_merge path,
\* whenever the merge call fails, the failure leaves run and the process
\* ends with a non-zero exit and never reports successful completion.
C12_MergeFailureIsFatal ==
    (\E i \in Calls("merge") : ~calls[i].ok)
        => /\ pc = "raised"
           /\ exc = Exception("_auto_merge", "HTTPError")
           /\ ExitStatus # 0
           /\ ~Completed

C12_Witness ==
    /\ verdict.decision = "auto_merge"
    /\ \E i \in Calls("merge") : ~calls[i].ok
    /\ pc = "raised"

\* C13: a label failure on the require_approval path is not fatal: whenever
\* the comment was posted and the label call then fails, execute_action
\* returns normally and the run completes, with the comment left in place.
C13_LabelFailureIsNotFatal ==
    (\E i \in Calls("labels") : ~calls[i].ok)
        => /\ pc = "done"
           /\ exc = NoException
           /\ ExitStatus = 0
           /\ \E j \in Calls("comment"), i \in Calls("labels") : j < i /\ calls[j].ok

C13_Witness ==
    /\ verdict.decision = "require_approval"
    /\ \E i \in Calls("labels") : ~calls[i].ok
    /\ \E j \in Calls("comment") : calls[j].ok
    /\ Completed

\* the run has ended
Ended == pc \in {"done", "skipped", "raised", "config_error"}

\* C14 (as stated): every run that produced a verdict has left a comment on
\* the pull request when it ends, blocked runs and runs that end abnormally
\* included; a run that fails during setup has written nothing to the pull
\* request.
C14_VerdictLeavesAComment ==
    /\ Ended /\ verdict # NoVerdict => \E i \in Calls("comment") : calls[i].ok
    /\ Ended /\ verdict = NoVerdict => Writes = {}

\* C14 (amended): every run that produced a verdict has issued the comment
\* request as its first write when it ends, and the comment is on the pull
\* request unless that request itself failed, in which case the run ends
\* abnormally with nothing written; a run that ends without a verdict has
\* written nothing to the pull request.
C14_VerdictLeavesACommentUnlessPostingFails ==
    /\ Ended /\ verdict # NoVerdict
           => \E i \in Calls("comment") :
                 /\ \A j \in Writes : i <= j
                 /\ \/ calls[i].ok
                    \/ /\ pc = "raised"
                       /\ exc = Exception("_add_comment", "HTTPError")
                       /\ Writes = {i}
    /\ Ended /\ verdict = NoVerdict => Writes = {}

C14_Witness ==
    /\ pc = "done"
    /\ verdict.decision = "do_not_merge"
    /\ \E i \in Calls("comment") : calls[i].ok /\ Writes = {i}

\* the requests of one kind that failed
Failed(op) == {i \in Calls(op) : ~calls[i].ok}

\* C18: failures of the wrapped read fetches degrade instead of ending the
\* run: a failed check-run fetch yields the CI aggregate (unknown, null),
\* which is not pending, a failed file fetch yields the empty file list and
\* a failed diff fetch yields a text observation; in each case the run goes
\* on to the reasoning loop, while a failed comment or merge call ends it
\* with the exception.
C18_ReadFailuresDegrade ==
    /\ Failed("check-runs") # {}
           => /\ ctx.ci_status = "unknown"
              /\ ctx.ci_status # "pending"
              /\ _get_ci_status(FALSE, pr.check_runs) = <<"unknown", NoneValue>>
    /\ Failed("files") # {} => ctx.files_changed = <<>>
    /\ Failed("check-runs") # {} \/ Failed("files") # {}
           => /\ pc \notin {"start", "gather", "skipped"}
              /\ iteration = 0 => pc = "request"
              /\ exc.in \notin {"is_dependency_pr", "gather_pr_context"}
    /\ \A i \in 1..Len(results) :
           response.content[results[i].tool_use_id].name = "analyze_diff"
               => /\ results[i].content.kind = "str"
                  /\ results[i].content.tag = "could_not_fetch_diff"
                  /\ exc.in # "_analyze_diff"
    /\ Failed("comment") # {} \/ Failed("merge") # {}
           => pc = "raised" /\ exc.in \in {"_add_comment", "_auto_merge"}

C18_Witness ==
    /\ Failed("check-runs") # {}
    /\ Failed("files") # {}
    /\ \E i \in 1..Len(results) :
           /\ response.content[results[i].tool_use_id].name = "analyze_diff"
           /\ results[i].content.tag = "could_not_fetch_diff"
    /\ Completed

----------------------------------------------------------------------------
(* Claims about _get_ci_status, under SpecCIStatus *)

CIStatusApplied == pc = "ci_done"

\* the list of check runs was fetched
Fetched == \E i \in Calls("check-runs") : calls[i].ok

Incomplete(run) == run.status # "completed"

ConcludedBadly(run) ==
    run.status = "completed" /\ run.conclusion \in {"failure", "cancelled", "timed_out"}

\* C15: _get_ci_status returns status success only if every check has
\* completed and every check's conclusion is success: a result of (success,
\* success) implies that the list has no incomplete check and no check whose
\* conclusion, null included, is not success.
C15_SuccessOnlyIfAllSucceeded ==
    CIStatusApplied /\ ret = <<"success", "success">>
        => \A i \in 1..Len(pr.check_runs) :
               /\ ~Incomplete(pr.check_runs[i])
               /\ pr.check_runs[i].conclusion = "success"

\* the part of C15 that holds: success is returned only for a fetched list
\* without an incomplete check whose conclusions, as far as there are any,
\* are all success
SuccessOnlyIfNoOtherConclusion ==
    CIStatusApplied /\ ret[1] = "success"
        => /\ Fetched
           /\ ret[2] = "success"
           /\ \A i \in 1..Len(pr.check_runs) :
                  /\ ~Incomplete(pr.check_runs[i])
                  /\ pr.check_runs[i].conclusion \in {"success", NoneValue}

\* C16: _get_ci_status returns (failure, failure) whenever any completed
\* check has conclusion failure, cancelled or timed_out, for every fetched
\* list, also when another check of the list has not completed yet.
C16_FailureWheneverACheckFailed ==
    CIStatusApplied /\ Fetched /\ (\E i \in 1..Len(pr.check_runs) : ConcludedBadly(pr.check_runs[i]))
        => ret = <<"failure", "failure">>

\* the part of C16 that holds: a list whose checks have all completed and
\* of which one concluded badly is a failure
FailureWhenAllCompleted ==
    (/\ CIStatusApplied
     /\ Fetched
     /\ \E i \in 1..Len(pr.check_runs) : ConcludedBadly(pr.check_runs[i])
     /\ \A i \in 1..Len(pr.check_runs) : ~Incomplete(pr.check_runs[i]))
        => ret = <<"failure", "failure">>

\* C17: _get_ci_status returns (pending, null) when the list of checks is
\* empty, whenever at least one check has not completed, whatever the other
\* conclusions, and when all checks completed but neither every conclusion
\* is success nor any is failure, cancelled or timed_out.
C17_PendingCases ==
    CIStatusApplied /\ Fetched
        => /\ pr.check_runs = <<>> => ret = <<"pending", NoneValue>>
           /\ (\E i \in 1..Len(pr.check_runs) : Incomplete(pr.check_runs[i]))
                  => ret = <<"pending", NoneValue>>
           /\ (/\ pr.check_runs # <<>>
               /\ \A i \in 1..Len(pr.check_runs) : ~Incomplete(pr.check_runs[i])
               /\ ~\A i \in 1..Len(pr.check_runs) : pr.check_runs[i].conclusion = "success"
               /\ ~\E i \in 1..Len(pr.check_runs) : ConcludedBadly(pr.check_runs[i]))
                  => ret = <<"pending", NoneValue>>

\* the part of C17 that holds: the empty list and every list with an
\* incomplete check are pending
PendingWhenEmptyOrIncomplete ==
    CIStatusApplied /\ Fetched
        => /\ pr.check_runs = <<>> => ret = <<"pending", NoneValue>>
           /\ (\E i \in 1..Len(pr.check_runs) : Incomplete(pr.check_runs[i]))
                  => ret = <<"pending", NoneValue>>

----------------------------------------------------------------------------
(* Claims about _parse_dependency_info, under SpecParse *)

Parsed == pc = "parse_done"

HasDot(v) == \E i \in 1..Len(v) : v[i] = "."

\* the index of the k-th dot of v, Len(v) + 1 when v has fewer dots
DotAt(v, k) ==
    LET dots == {i \in 1..Len(v) : v[i] = "." /\ Cardinality({j \in 1..i : v[j] = "."}) = k}
    IN  IF dots = {} THEN Len(v) + 1 ELSE CHOOSE i \in dots : TRUE

\* the first and the second dot-separated component of a version
FirstComponent(v) == SubSeq(v, 1, DotAt(v, 1) - 1)
SecondComponent(v) == SubSeq(v, DotAt(v, 1) + 1, DotAt(v, 2) - 1)

Expected(old, new) ==
    IF FirstComponent(old) # FirstComponent(new) THEN "major"
    ELSE IF HasDot(old) /\ HasDot(new) /\ SecondComponent(old) # SecondComponent(new)
    THEN "minor"
    ELSE "patch"

\* C19: when the title yields a version pair, _parse_dependency_info
\* classifies it by its dot-separated components: major if the first
\* components differ; otherwise minor if both versions have at least two
\* components and the second components differ; otherwise patch, also for
\* pairs of different length or with a single component.
C19_ClassifiedByComponents ==
    Parsed /\ (\E i \in 1..Len(pr.title) : VersionPairAt(pr.title, i))
        => /\ ret.update_type = Expected(ret.old_version, ret.new_version)
           /\ pr.title = title_patch => ret.update_type = "patch"
           /\ pr.title = title_minor => ret.update_type = "minor"
           /\ pr.title = title_major => ret.update_type = "major"

C19_Witness ==
    /\ Parsed
    /\ ret.old_version = <<"1">>
    /\ ret.new_version = <<"1", ".", "2">>
    /\ ret.update_type = "patch"

\* a component made of digits only, and not empty
IsNumeric(part) == part # <<>> /\ \A i \in 1..Len(part) : part[i] \in Digits

HasNumericComponent(v) ==
    \E i \in 1..(Len(v) + 1), j \in 0..Len(v) :
        /\ i <= j
        /\ IsNumeric(SubSeq(v, i, j))
        /\ (i = 1 \/ v[i - 1] = ".")
        /\ (j = Len(v) \/ v[j + 1] = ".")

\* C20: in every result of _parse_dependency_info the bump category is
\* unknown unless both version strings contain at least one numeric
\* component; when no version pair is found both versions are empty and the
\* category is unknown; no result has exactly one of the two versions empty.
C20_UnknownUnlessNumericVersions ==
    Parsed
        => /\ ret.update_type # "unknown"
                  => HasNumericComponent(ret.old_version) /\ HasNumericComponent(ret.new_version)
           /\ (~\E i \in 1..Len(pr.title) : VersionPairAt(pr.title, i))
                  => ret.old_version = <<>> /\ ret.new_version = <<>> /\ ret.update_type = "unknown"
           /\ (ret.old_version = <<>>) = (ret.new_version = <<>>)

\* the part of C20 that holds: without a pair both versions are empty and
\* the category is unknown, and never exactly one version is empty
NoPairIsUnknown ==
    Parsed
        => /\ (~\E i \in 1..Len(pr.title) : VersionPairAt(pr.title, i))
                  => ret.old_version = <<>> /\ ret.new_version = <<>> /\ ret.update_type = "unknown"
           /\ (ret.old_version = <<>>) = (ret.new_version = <<>>)

----------------------------------------------------------------------------
(* Claims about verdict extraction, under SpecExtract *)

FinalText == final_text_of(response.content)

\* the first balanced {...} group of a text as the specification words it,
\* <<>> when there is none
RECURSIVE BalancedEnd(_, _, _)
BalancedEnd(text, i, depth) ==
    IF i > Len(text) THEN 0
    ELSE IF text[i] = LB THEN BalancedEnd(text, i + 1, depth + 1)
    ELSE IF text[i] = RB
         THEN IF depth = 1 THEN i ELSE BalancedEnd(text, i + 1, depth - 1)
    ELSE BalancedEnd(text, i + 1, depth)

FirstBalancedGroup(text) ==
    LET opens == {i \in 1..Len(text) : text[i] = LB}
    IN  IF opens = {} THEN <<>>
        ELSE LET first == CHOOSE i \in opens : \A j \in opens : i <= j
                 last  == BalancedEnd(text, first + 1, 1)
             IN  IF last = 0 THEN <<>> ELSE SubSeq(text, first, last)

Extracted == pc = "act"

\* a parsed object that is a verdict: the three fields, with defined tokens
IsVerdictObject(obj) ==
    /\ {"decision", "risk_level", "reasoning"} \subseteq DOMAIN obj
    /\ obj["decision"] \in {"AUTO_MERGE", "REQUIRE_APPROVAL", "DO_NOT_MERGE"}
    /\ obj["risk_level"] \in {"LOW", "MEDIUM", "HIGH", "CRITICAL"}

\* the text has no JSON object: no opening brace with a closing brace after it
HasNoObject(text) ==
    ~\E i \in 1..Len(text), j \in 1..Len(text) : i < j /\ text[i] = LB /\ text[j] = RB

\* the text has braces, but its first group never closes or is no JSON object
IsMalformed(text) ==
    /\ ~HasNoObject(text)
    /\ \/ FirstBalancedGroup(text) = <<>>
       \/ ~json_loads(FirstBalancedGroup(text)).ok

\* the first group is a JSON object that lacks a field or holds a token that
\* is none of the defined ones
IsNoVerdict(text) ==
    /\ FirstBalancedGroup(text) # <<>>
    /\ json_loads(FirstBalancedGroup(text)).ok
    /\ ~IsVerdictObject(json_loads(FirstBalancedGroup(text)).obj)

\* C8: every verdict-parsing failure yields exactly the fallback verdict:
\* when the final text contains no JSON object, or malformed JSON, or a
\* decision or risk_level value that is not one of the defined case-sensitive
\* tokens, or lacks one of the three fields, decide_with_llm returns the
\* decision and risk that _fallback_decision gives for the same context.
C8_ParseFailureYieldsFallback ==
    Extracted /\ (HasNoObject(FinalText) \/ IsMalformed(FinalText) \/ IsNoVerdict(FinalText))
        => /\ verdict.decision = _fallback_decision(ctx, FinalText).decision
           /\ verdict.risk = _fallback_decision(ctx, FinalText).risk

C8_Witness ==
    /\ Extracted
    /\ IsNoVerdict(FinalText)
    /\ "risk_level" \notin DOMAIN json_loads(FirstBalancedGroup(FinalText)).obj
    /\ ctx.update_type = "patch"
    /\ ctx.mergeable
    /\ ctx.ci_status = "success"
    /\ verdict.decision = "auto_merge"
    /\ verdict.risk = "low"

\* C9: verdict extraction uses the first balanced curly-brace JSON object of
\* the final text: whenever that group is a well-formed verdict object with
\* valid tokens, the returned decision and risk are those of that object,
\* also when text with further braces or a second object follows it.
C9_FirstBalancedObjectDecides ==
    Extracted
    /\ FirstBalancedGroup(FinalText) # <<>>
    /\ json_loads(FirstBalancedGroup(FinalText)).ok
    /\ IsVerdictObject(json_loads(FirstBalancedGroup(FinalText)).obj)
        => /\ verdict.decision =
                  MergeDecision[json_loads(FirstBalancedGroup(FinalText)).obj["decision"]]
           /\ verdict.risk =
                  RiskLevel[json_loads(FirstBalancedGroup(FinalText)).obj["risk_level"]]

\* the part of C9 that holds: a verdict object that no closing brace follows
\* decides, whatever precedes it short of an opening brace
LastObjectDecides ==
    Extracted
    /\ json_match(FinalText) = FirstBalancedGroup(FinalText)
    /\ FirstBalancedGroup(FinalText) # <<>>
    /\ json_loads(FirstBalancedGroup(FinalText)).ok
    /\ IsVerdictObject(json_loads(FirstBalancedGroup(FinalText)).obj)
        => /\ verdict.decision =
                  MergeDecision[json_loads(FirstBalancedGroup(FinalText)).obj["decision"]]
           /\ verdict.risk =
                  RiskLevel[json_loads(FirstBalancedGroup(FinalText)).obj["risk_level"]]

----------------------------------------------------------------------------
(* Claims about main and the dependency-PR precondition *)

RequiredSettings == {"GITHUB_TOKEN", "GITHUB_REPOSITORY", "PR_NUMBER", "ANTHROPIC_API_KEY"}

Absent(value) == value = Unset \/ value = <<>>

\* an integer literal: an optional sign followed by at least one digit
ValidInteger(text) ==
    \E first \in 1..2 :
        /\ first <= Len(text)
        /\ first = 2 => text[1] \in {"+", "-"}
        /\ \A i \in first..Len(text) : text[i] \in Digits

ConfigurationError ==
    \/ \E name \in RequiredSettings : Absent(env[name])
    \/ ~ValidInteger(env.PR_NUMBER)

\* C22: when one of the four required settings is absent or the PR number
\* is not a valid integer, the process exits with a non-zero status and no
\* request was issued to the source-control host or to the reasoning
\* service; when an exception escapes run the exit status is non-zero;
\* every other run that ends, ends with status zero.
C22_ConfigurationErrorsAreFatal ==
    /\ ConfigurationError =>
          /\ calls = <<>>
          /\ iteration = 0
          /\ pc \in {"main", "config_error"}
          /\ pc # "main" => ExitStatus # 0
    /\ pc = "raised" => ExitStatus # 0
    /\ (~ConfigurationError /\ pc \in {"done", "skipped"}) => ExitStatus = 0

\* a PR number that is present but no integer ended the process
C22_Witness ==
    /\ pc = "config_error"
    /\ \A name \in RequiredSettings : ~Absent(env[name])
    /\ ~ValidInteger(env.PR_NUMBER)
    /\ ExitStatus = 1

AuthorIsKnownBot ==
    pr.author \in {"dependabot[bot]", "dependabot", "renovate[bot]", "renovate"}

HasDependencyKeyword ==
    \/ \E i \in 1..Len(pr.labels) : Contains(lower(pr.labels[i]), <<"d", "e", "p">>)
    \/ Contains(lower(pr.title), <<"b", "u", "m", "p">>)
    \/ Contains(lower(pr.title), <<"u", "p", "d", "a", "t", "e">>)

FailsPrecondition ==
    \/ ~AuthorIsKnownBot /\ ~skip_author_check
    \/ ~HasDependencyKeyword

\* the precondition was evaluated: its fetch answered
PreconditionEvaluated ==
    /\ pc \notin {"main", "config_error", "start"}
    /\ ~(pc = "raised" /\ exc.in = "is_dependency_pr")

\* C21: a PR that fails the dependency-PR precondition (author not a known
\* bot while the skip setting is off, or no label containing 'dep' and a
\* title with neither 'bump' nor 'update') makes run return with no
\* reasoning-service request and no comment, label or merge request; with
\* the skip setting on the author is not considered, so a PR with the
\* keywords is evaluated whoever wrote it.
C21_FailedPreconditionLeavesThePRUntouched ==
    /\ (PreconditionEvaluated /\ FailsPrecondition) =>
          /\ pc = "skipped"
          /\ iteration = 0
          /\ messages = <<>>
          /\ Writes = {}
          /\ ExitStatus = 0
    /\ (PreconditionEvaluated /\ skip_author_check /\ HasDependencyKeyword) =>
          pc # "skipped"

\* a PR with the keywords, written by somebody else, was skipped
C21_Witness ==
    /\ pc = "skipped"
    /\ ~AuthorIsKnownBot
    /\ HasDependencyKeyword
    /\ ~skip_author_check

----------------------------------------------------------------------------
(* Claims about _is_security_update, under SpecSecurity *)

SecurityApplied == pc = "security_done"

\* the two characters are the same letter in either case, or the same character
SameCharacter(a, b) ==
    \/ a = b
    \/ a \in DOMAIN UpperToLower /\ UpperToLower[a] = b
    \/ b \in DOMAIN UpperToLower /\ UpperToLower[b] = a

\* word occurs in text at some position, whatever the case of its letters
Mentions(text, word) ==
    \E start \in 1..Len(text) :
        /\ start + Len(word) - 1 <= Len(text)
        /\ \A j \in 1..Len(word) : SameCharacter(text[start + j - 1], word[j])

SecurityIndicated ==
    \/ \E i \in 1..Len(pr.labels) : Mentions(pr.labels[i], <<"s", "e", "c", "u", "r", "i", "t", "y">>)
    \/ Mentions(pr.body, <<"s", "e", "c", "u", "r", "i", "t", "y">>)
    \/ Mentions(pr.body, <<"c", "v", "e">>)
    \/ Mentions(pr.body, <<"v", "u", "l", "n", "e", "r", "a", "b", "i", "l", "i", "t", "y">>)

\* C23: _is_security_update returns true exactly when some label name
\* contains 'security' or the body contains 'security', 'cve' or
\* 'vulnerability', as a substring and whatever the case; the label
\* 'dependencies' with the body 'Regular dependency update' gives false.
C23_SecurityExactlyWhenIndicated ==
    SecurityApplied =>
        /\ ret = SecurityIndicated
        /\ (pr.labels = <<label_dependencies>> /\ pr.body = body_regular) => ret = FALSE

\* an upper-case CVE in the body, under a label that says nothing
C23_Witness ==
    /\ SecurityApplied
    /\ pr.labels = <<label_dependencies>>
    /\ pr.body = body_cve
    /\ ret = TRUE

----------------------------------------------------------------------------
(* Non-interference of the fallback policy, under SpecFallback *)

\* the two contexts agree on the four fields the table names
AgreeOnTheFour(c1, c2) ==
    /\ c1.ci_status = c2.ci_status
    /\ c1.mergeable = c2.mergeable
    /\ c1.update_type = c2.update_type
    /\ c1.is_security_update = c2.is_security_update

\* C30: two contexts that agree on CI status, mergeable flag, bump category
\* and security flag get the same decision and the same risk from
\* _fallback_decision, whatever their draft flag, mergeable_state, CI
\* conclusion, labels, versions and dependency name and whatever the text
\* of the reasoning service; the text is found in the reasoning alone.
C30_FallbackReadsFourFields ==
    FallbackApplied =>
        /\ \A other \in FallbackInputs, text \in FallbackTexts :
              AgreeOnTheFour(ctx, other.ctx) =>
                  /\ _fallback_decision(other.ctx, text).decision = verdict.decision
                  /\ _fallback_decision(other.ctx, text).risk = verdict.risk
        /\ \E text \in FallbackTexts : verdict.reasoning = <<fallback_note>> \o text

\* a draft with another name, other versions, another label list and
\* another mergeable_state than a context that agrees with it on the four
C30_Witness ==
    /\ FallbackApplied
    /\ ctx.is_draft
    /\ ctx.mergeable_state = "unstable"
    /\ ctx.dependency_name = <<"b">>
    /\ verdict.decision = "auto_merge"
    /\ verdict.reasoning # <<fallback_note>>
    /\ \E other \in FallbackInputs :
          /\ AgreeOnTheFour(ctx, other.ctx)
          /\ ~other.ctx.is_draft
          /\ other.ctx.mergeable_state # ctx.mergeable_state
          /\ other.ctx.labels # ctx.labels
          /\ other.ctx.old_version # ctx.old_version
          /\ other.ctx.new_version # ctx.new_version
          /\ other.ctx.dependency_name # ctx.dependency_name

----------------------------------------------------------------------------
(* Claims about the conversation of decide_with_llm, under SpecLoop *)

\* the positions of the tool requests of a content, in the order listed
ToolRequests(content) ==
    LET at == {i \in 1..Len(content) : content[i].type = "tool_use"}
    IN  [k \in 1..Cardinality(at) |->
            CHOOSE i \in at : Cardinality({j \in at : j < i}) = k - 1]

\* the ids the observations carry, in the order they are kept
ObservedIds(tool_results) == [k \in 1..Len(tool_results) |-> tool_results[k].tool_use_id]

AreObservations(tool_results) ==
    \A k \in 1..Len(tool_results) : tool_results[k].content.kind = "str"

\* the rounds whose messages are in the conversation
AppendedRounds == 1..((Len(messages) - 1) \div 2)

\* C24: within a round the tools are executed in the order the response
\* lists their requests, and the observations appended to the conversation
\* are one per tool request, in that order, each with the id of its
\* request; the rounds are numbered 1..5 in order, and the request of round
\* k+1 is issued only when the observations of round k are appended.
C24_ObservationsFollowTheRequests ==
    /\ [](/\ iteration \in 0..5
          /\ pc = "tools" =>
                ObservedIds(results) = ToolRequests(SubSeq(response.content, 1, block - 1))
          /\ \A k \in AppendedRounds :
                /\ messages[2 * k].role = "assistant"
                /\ messages[2 * k + 1].role = "user"
                /\ ObservedIds(messages[2 * k + 1].content) = ToolRequests(messages[2 * k].content)
                /\ AreObservations(messages[2 * k + 1].content))
    /\ [][/\ messages' # messages =>
                /\ messages' = messages \o <<Message("assistant", response.content),
                                               Message("user", results)>>
                /\ ObservedIds(results) = ToolRequests(response.content)
          /\ iteration' # iteration =>
                /\ iteration' = iteration + 1
                /\ AppendedRounds = 1..iteration
                /\ results = <<>>]_vars

\* two tool requests around a text, appended with their two observations
C24_Witness ==
    \E k \in AppendedRounds :
        /\ k >= 2
        /\ Len(messages[2 * k].content) = 3
        /\ ToolRequests(messages[2 * k].content) = <<1, 3>>
        /\ ObservedIds(messages[2 * k + 1].content) = <<1, 3>>
        /\ messages[2 * k + 1].content[1].content.tag = "could_not_fetch_diff"
        /\ messages[2 * k + 1].content[2].content.tag = "unknown_tool"

RolesAlternate ==
    \A i \in 1..Len(messages) :
        messages[i].role = IF i % 2 = 1 THEN "user" ELSE "assistant"

\* C25: the conversation is append-only: every change of the message list
\* keeps the messages it had, unchanged and in place, and adds exactly two,
\* the content of the last response as an assistant message and then the
\* user message with the tool observations; the request of round k is sent
\* with 2k-1 messages whose roles alternate, starting with user.
C25_ConversationIsAppendOnly ==
    /\ [](/\ RolesAlternate
          /\ messages[1] = Message("user", user_message)
          /\ pc = "request" => Len(messages) = 2 * (iteration + 1) - 1)
    /\ [][messages' # messages =>
              /\ Len(messages') = Len(messages) + 2
              /\ SubSeq(messages', 1, Len(messages)) = messages
              /\ messages'[Len(messages) + 1] = Message("assistant", response.content)
              /\ messages'[Len(messages) + 2] = Message("user", results)]_vars

\* the request of the fifth round is about to be sent
C25_Witness ==
    /\ pc = "request"
    /\ iteration = 4
    /\ Len(messages) = 9
    /\ messages[3] # messages[5]

Returned == pc = "act"

RequestsTools(r) == r.stop_reason = "tool_use"

\* C26: the loop stops at the first response that does not request tools:
\* no tool is executed for it, no message is appended and no request is
\* issued after it, and the final answer is its text; the responses before
\* it all requested tools, so the number of requests is the index of the
\* first tool-free response, and it is 5 when the loop ends on a response
\* that requests tools.
C26_LoopStopsAtFirstToolFreeResponse ==
    /\ []((response # NoResponse /\ ~RequestsTools(response)) =>
              /\ pc \in {"extract", "act"}
              /\ results = <<>>
              /\ iteration = Cardinality(AppendedRounds) + 1
              /\ Returned => verdict = parse_decision(ctx, final_text_of(response.content)))
    /\ [](Returned /\ RequestsTools(response) =>
              iteration = 5 /\ Cardinality(AppendedRounds) = 5)
    /\ [][/\ (response # NoResponse /\ ~RequestsTools(response)) =>
                /\ response' = response
                /\ iteration' = iteration
                /\ messages' = messages
                /\ results' = results
          /\ messages' # messages => RequestsTools(response)]_vars

\* the third response is the first that requests no tool; it lists one
C26_Witness ==
    /\ Returned
    /\ iteration = 3
    /\ response.stop_reason = "max_tokens"
    /\ \E i \in 1..Len(response.content) : response.content[i].type = "tool_use"
    /\ Len(messages) = 5
    /\ verdict.source = "fallback"

\* C29: when the fifth response requests tools, its tools are executed and
\* their observations appended as the eleventh message, no request follows,
\* and the verdict is derived from the text blocks of that response: parsed
\* from a verdict object in them, and the fallback verdict otherwise, so
\* also when the response has no text.
C29_FifthToolRoundDecidesByItsText ==
    /\ iteration <= 5
    /\ pc = "request" => iteration < 5
    /\ (Returned /\ iteration = 5 /\ RequestsTools(response)) =>
          /\ Len(messages) = 11
          /\ messages[10] = Message("assistant", response.content)
          /\ messages[11] = Message("user", results)
          /\ ObservedIds(results) = ToolRequests(response.content)
          /\ AreObservations(results)
          /\ verdict = parse_decision(ctx, final_text_of(response.content))
          /\ final_text_of(response.content) = VerdictObject("AUTO_MERGE", "LOW") =>
                /\ verdict.source = "llm"
                /\ verdict.decision = "auto_merge"
                /\ verdict.risk = "low"
          /\ final_text_of(response.content) \in {<<>>, <<Prose>>} =>
                /\ verdict.source = "fallback"
                /\ verdict.decision = _fallback_decision(ctx, <<>>).decision
                /\ verdict.risk = _fallback_decision(ctx, <<>>).risk

\* the fifth response asks for two tools beside a verdict that contradicts
\* the fallback policy
C29_Witness ==
    /\ Returned
    /\ iteration = 5
    /\ RequestsTools(response)
    /\ Len(results) = 2
    /\ verdict.source = "llm"
    /\ verdict.decision = "auto_merge"
    /\ _fallback_decision(ctx, <<>>).decision = "do_not_merge"

----------------------------------------------------------------------------
(* Claims about the phases of a run, under Spec *)

ReadOps == {"pulls", "check-runs", "files"}

\* the requests a step adds to the requests issued so far
Issued == {i \in 1..Len(calls') : i > Len(calls)}

\* the phase a position of the run belongs to: configuration, precondition,
\* context assembly, reasoning loop, action dispatch
Phase(at) ==
    CASE at \in {"main", "config_error"} -> 0
      [] at \in {"start", "skipped"} -> 1
      [] at = "gather" -> 2
      [] at \in {"request", "tools", "extract"} -> 3
      [] OTHER -> 4

\* C27: the phases of a run follow one another and only the last writes:
\* every context read precedes the first reasoning-service request, no
\* comment, label or merge request is issued before the loop has ended
\* with a verdict, the steps of the loop, tool invocations included, issue
\* no write, and the dispatch is entered at most once, on one verdict that
\* never changes afterwards.
C27_PhasesAreSequential ==
    /\ [](/\ Writes # {} => (verdict # NoVerdict /\ Phase(pc) = 4)
          /\ iteration >= 1 =>
                \A i \in 1..Len(calls) : calls[i].op \in ReadOps => i <= 4
          /\ Phase(pc) = 4 /\ pc # "raised" => verdict # NoVerdict)
    /\ [][/\ Len(calls') >= Len(calls)
          /\ SubSeq(calls', 1, Len(calls)) = calls
          /\ pc # "raised" => Phase(pc') >= Phase(pc)
          /\ iteration >= 1 => \A i \in Issued : calls'[i].op \notin ReadOps
          /\ Phase(pc) <= 3 => \A i \in Issued : calls'[i].op \notin WriteOps
          /\ pc' = "act" => (pc = "extract" /\ verdict = NoVerdict /\ verdict' # NoVerdict)
          /\ verdict # NoVerdict => verdict' = verdict]_vars

\* a run that used a tool in each of five rounds, read four times before
\* the first of them and wrote twice after the last
C27_Witness ==
    /\ pc = "done"
    /\ iteration = 5
    /\ response.stop_reason = "tool_use"
    /\ results # <<>>
    /\ Len(calls) = 6
    /\ Writes = {5, 6}

\* C28: on the auto_merge path the comment is posted before the merge
\* request and the merge request is issued only after the comment request
\* succeeded; on the require_approval path the labels are attached only
\* after the comment was posted; a failed comment ends the run with its
\* exception and neither a merge nor a label request is issued.
C28_CommentPrecedesMergeAndLabels ==
    /\ \A i \in Calls("merge") \cup Calls("labels") :
          \E j \in Calls("comment") : j < i /\ calls[j].ok
    /\ Failed("comment") # {} =>
          /\ Calls("merge") = {}
          /\ Calls("labels") = {}
          /\ pc = "raised"
          /\ exc.in = "_add_comment"
          /\ ExitStatus # 0
    /\ Calls("merge") # {} => verdict.decision = "auto_merge"
    /\ Calls("labels") # {} => verdict.decision = "require_approval"

\* the comment of an auto_merge verdict could not be posted
C28_Witness ==
    /\ pc = "raised"
    /\ verdict.decision = "auto_merge"
    /\ Failed("comment") # {}
    /\ Calls("merge") = {}

====
